---- MODULE Spec2Model ----
(***************************************************************************)
(* Transaction execution engine of the runtime package.                    *)
(*                                                                         *)
(* The canonical world state (Runtime.store) is mutated only by            *)
(* Runtime.executeTx, which clones it into a transient context (Ctx),      *)
(* lets Ctx.processTransactions run the group on the clone and installs    *)
(* the clone as the new store when no transaction of the group throws.     *)
(*                                                                         *)
(* A JavaScript exception is modelled as a result record                   *)
(*   [err |-> <error kind, "" when none>, state |-> <ctx state reached>]   *)
(* so that the partial mutations made before a throw stay visible.         *)
(***************************************************************************)
EXTENDS Integers, Sequences, FiniteSets, TLC

\* ------------------------------------------------------------------ bounds
InitBalance == 4    \* balance every account starts with (micro-units, scaled)
MinBal      == 2    \* minimum balance of an account (scaled)
MaxFee      == 1    \* transaction fees range over 1..MaxFee
MaxAmt      == 2    \* transfer amounts range over 0..MaxAmt
AssetTotal  == 2    \* total supply of the asset of the initial world

\* --------------------------------------------------------- program constants
MaxGroupSize == 16

\* ------------------------------------------------------------- vocabulary
Addr     == {"A", "B", "C"}       \* addresses of the accounts of the store
Ghost    == "X"                   \* an address no account of the store has
Blank    == ""                    \* the zero (blank) role address
AssetId1 == 1                     \* the asset of the initial world
AppId1   == 1                     \* an application whose approval program accepts
AppId2   == 2                     \* an application whose approval program rejects

\* Programs are identified by their source text; run gives their verdict.
Programs == {"int 1", "int 0", "err"}

NoErr == ""

Ok(st)      == [err |-> NoErr, state |-> st]
Fail(e, st) == [err |-> e, state |-> st]

\* Map helpers (JavaScript Map.delete / Map.set on a function value)
MapDelete(f, k) == [x \in (DOMAIN f) \ {k} |-> f[x]]

VARIABLES store, outcome
vars == <<store, outcome>>

\* ---------------------------------------------------------------- accessors
HasAccount(st, address) == address \in DOMAIN st.accounts

\* Ctx.getAssetAccount: error kind of looking up the creator account of an asset
getAssetAccount(st, assetId) ==
  IF assetId \notin DOMAIN st.assetDefs THEN "ASSET_NOT_FOUND"
  ELSE IF ~HasAccount(st, st.assetDefs[assetId]) THEN "ACCOUNT_DOES_NOT_EXIST"
  ELSE NoErr

\* Ctx.getAssetDef: error kind of looking up the definition of an asset
getAssetDef(st, assetId) ==
  IF getAssetAccount(st, assetId) # NoErr THEN getAssetAccount(st, assetId)
  ELSE IF assetId \notin DOMAIN st.accounts[st.assetDefs[assetId]].createdAssets
         THEN "ASSET_NOT_FOUND"
  ELSE NoErr

\* the definition itself, where getAssetDef gives no error
AssetDefOf(st, assetId) == st.accounts[st.assetDefs[assetId]].createdAssets[assetId]

\* Ctx.getAssetHolding: error kind of looking up a holding
getAssetHolding(st, assetIndex, address) ==
  IF ~HasAccount(st, address) THEN "ACCOUNT_DOES_NOT_EXIST"
  ELSE IF assetIndex \notin DOMAIN st.accounts[address].assets THEN "ASA_NOT_OPTIN"
  ELSE NoErr

HoldingOf(st, assetIndex, address) == st.accounts[address].assets[assetIndex]

\* Ctx.assertMinBalance
assertMinBalance(st, amt, address) ==
  IF ~HasAccount(st, address) THEN "ACCOUNT_DOES_NOT_EXIST"
  ELSE IF st.accounts[address].amount - amt < st.accounts[address].minBalance
         THEN "INSUFFICIENT_ACCOUNT_BALANCE"
  ELSE NoErr

\* Ctx.assertAssetNotFrozen
assertAssetNotFrozen(st, assetIndex, address) ==
  IF getAssetHolding(st, assetIndex, address) # NoErr
    THEN getAssetHolding(st, assetIndex, address)
  ELSE IF HoldingOf(st, assetIndex, address).frozen THEN "ACCOUNT_ASSET_FROZEN"
  ELSE NoErr

\* Ctx.getApp: error kind of looking up an application
getApp(st, appId) ==
  IF appId \notin DOMAIN st.globalApps THEN "APP_NOT_FOUND"
  ELSE IF ~HasAccount(st, st.globalApps[appId]) THEN "ACCOUNT_DOES_NOT_EXIST"
  ELSE IF appId \notin DOMAIN st.accounts[st.globalApps[appId]].createdApps
         THEN "APP_NOT_FOUND"
  ELSE NoErr

AppOf(st, appId) == st.accounts[st.globalApps[appId]].createdApps[appId]


\* ------------------------------------------------- account store (StoreAccount)
\* the role addresses of an asset definition
Roles == {"manager", "reserve", "freeze", "clawback"}

\* modifyAsset letting a blank role be given an address again
AccountModifyAsset_AllowReset(acc, assetId, fields) ==
  IF assetId \notin DOMAIN acc.createdAssets THEN [err |-> "ASSET_NOT_FOUND", acc |-> acc]
  ELSE LET asset == acc.createdAssets[assetId]
       IN [err |-> NoErr,
           acc |-> [acc EXCEPT !.createdAssets[assetId] =
                      [asset EXCEPT !.manager = fields.manager,
                                    !.reserve = fields.reserve,
                                    !.freeze = fields.freeze,
                                    !.clawback = fields.clawback]]]

\* StoreAccount.modifyAsset: a blank role cannot be given an address again
\* ("Cannot reset a blank address"); otherwise the four role addresses are
\* set to the fields given, a blank field included.
AccountModifyAsset(acc, assetId, fields) ==
  IF assetId \notin DOMAIN acc.createdAssets THEN [err |-> "ASSET_NOT_FOUND", acc |-> acc]
  ELSE LET asset == acc.createdAssets[assetId]
       IN IF \E r \in Roles : asset[r] = Blank /\ fields[r] # Blank
            THEN [err |-> "BLANK_ADDRESS_ERROR", acc |-> acc]
          ELSE [err |-> NoErr,
                acc |-> [acc EXCEPT !.createdAssets[assetId] =
                           [asset EXCEPT !.manager = fields.manager,
                                         !.reserve = fields.reserve,
                                         !.freeze = fields.freeze,
                                         !.clawback = fields.clawback]]]

\* StoreAccount.setFreezeState
AccountSetFreezeState(acc, assetId, freezeState) ==
  IF assetId \notin DOMAIN acc.assets THEN [err |-> "ASA_NOT_OPTIN", acc |-> acc]
  ELSE [err |-> NoErr, acc |-> [acc EXCEPT !.assets[assetId].frozen = freezeState]]

MaxCreatedAssets == 1000

\* the account's record of a created asset; an account lists at most
\* MaxCreatedAssets of them
AccountAddAsset(acc, assetId) ==
  IF Cardinality(DOMAIN acc.createdAssets) >= MaxCreatedAssets
    THEN [err |-> "Maximum created assets for an account is 1000", acc |-> acc]
  ELSE [err |-> NoErr,
        acc |-> [acc EXCEPT !.createdAssets = (assetId :> [total |-> AssetTotal]) @@ @]]

\* destroyAsset not comparing the creator's holding with the total supply
AccountDestroyAsset_NoTotalCheck(acc, assetId) ==
  IF assetId \notin DOMAIN acc.createdAssets \/ assetId \notin DOMAIN acc.assets
    THEN [err |-> "ASSET_NOT_FOUND", acc |-> acc]
  ELSE [err |-> NoErr,
        acc |-> [acc EXCEPT !.createdAssets = MapDelete(@, assetId)]]

\* StoreAccount.destroyAsset: only when the creator holds the whole supply
AccountDestroyAsset(acc, assetId) ==
  IF assetId \notin DOMAIN acc.createdAssets \/ assetId \notin DOMAIN acc.assets
    THEN [err |-> "ASSET_NOT_FOUND", acc |-> acc]
  ELSE IF acc.assets[assetId].amount # acc.createdAssets[assetId].total
    THEN [err |-> "ASSET_TOTAL_ERROR", acc |-> acc]
  ELSE [err |-> NoErr,
        acc |-> [acc EXCEPT !.createdAssets = MapDelete(@, assetId)]]

\* StoreAccount.deleteApp
AccountDeleteApp(acc, appId) ==
  IF appId \notin DOMAIN acc.createdApps THEN [err |-> "APP_NOT_FOUND", acc |-> acc]
  ELSE [err |-> NoErr, acc |-> [acc EXCEPT !.createdApps = MapDelete(@, appId)]]

\* StoreAccount.closeApp: drop the local state of the app
AccountCloseApp(acc, appId) ==
  [acc EXCEPT !.appsLocalState = MapDelete(@, appId)]

\* ------------------------------------------------------------------ Ctx
\* transferAlgo without the minimum balance assertion
transferAlgo_NoMinCheck(st, p) ==
  IF ~HasAccount(st, p.fromAccount) \/ ~HasAccount(st, p.toAccountAddr)
    THEN Fail("ACCOUNT_DOES_NOT_EXIST", st)
  ELSE
    LET s1 == [st EXCEPT !.accounts[p.fromAccount].amount = @ - p.amountMicroAlgos]
        s2 == [s1 EXCEPT !.accounts[p.toAccountAddr].amount = @ + p.amountMicroAlgos]
    IN IF p.closeRemainderTo = Blank THEN Ok(s2)
       ELSE IF ~HasAccount(s2, p.closeRemainderTo)
         THEN Fail("ACCOUNT_DOES_NOT_EXIST", s2)
       ELSE
         LET s3 == [s2 EXCEPT !.accounts[p.closeRemainderTo].amount =
                                 @ + s2.accounts[p.fromAccount].amount]
         IN Ok([s3 EXCEPT !.accounts[p.fromAccount].amount = 0])

\* Ctx.transferAlgo
transferAlgo(st, p) ==
  IF ~HasAccount(st, p.fromAccount) \/ ~HasAccount(st, p.toAccountAddr)
    THEN Fail("ACCOUNT_DOES_NOT_EXIST", st)
  ELSE IF assertMinBalance(st, p.amountMicroAlgos, p.fromAccount) # NoErr
    THEN Fail(assertMinBalance(st, p.amountMicroAlgos, p.fromAccount), st)
  ELSE
    LET s1 == [st EXCEPT !.accounts[p.fromAccount].amount = @ - p.amountMicroAlgos]
        s2 == [s1 EXCEPT !.accounts[p.toAccountAddr].amount = @ + p.amountMicroAlgos]
    IN IF p.closeRemainderTo = Blank THEN Ok(s2)
       ELSE IF ~HasAccount(s2, p.closeRemainderTo)
         THEN Fail("ACCOUNT_DOES_NOT_EXIST", s2)
       ELSE
         LET s3 == [s2 EXCEPT !.accounts[p.closeRemainderTo].amount =
                                 @ + s2.accounts[p.fromAccount].amount]
         IN Ok([s3 EXCEPT !.accounts[p.fromAccount].amount = 0])

\* deductFee asserting the balance but leaving the fee with the sender
deductFee_CheckOnly(st, sender, fee) ==
  IF ~HasAccount(st, sender) THEN Fail("ACCOUNT_DOES_NOT_EXIST", st)
  ELSE IF assertMinBalance(st, fee, sender) # NoErr
    THEN Fail(assertMinBalance(st, fee, sender), st)
  ELSE Ok(st)

\* deductFee without the minimum balance assertion
deductFee_NoMinCheck(st, sender, fee) ==
  IF ~HasAccount(st, sender) THEN Fail("ACCOUNT_DOES_NOT_EXIST", st)
  ELSE Ok([st EXCEPT !.accounts[sender].amount = @ - fee])

\* Ctx.deductFee
deductFee(st, sender, fee) ==
  IF ~HasAccount(st, sender) THEN Fail("ACCOUNT_DOES_NOT_EXIST", st)
  ELSE IF assertMinBalance(st, fee, sender) # NoErr
    THEN Fail(assertMinBalance(st, fee, sender), st)
  ELSE Ok([st EXCEPT !.accounts[sender].amount = @ - fee])

\* transferAsset asserting only the sender's holding not frozen
transferAsset_NoReceiverFrozenCheck(st, p) ==
  IF getAssetHolding(st, p.assetID, p.fromAccount) # NoErr
    THEN Fail(getAssetHolding(st, p.assetID, p.fromAccount), st)
  ELSE IF getAssetHolding(st, p.assetID, p.toAccountAddr) # NoErr
    THEN Fail(getAssetHolding(st, p.assetID, p.toAccountAddr), st)
  ELSE IF assertAssetNotFrozen(st, p.assetID, p.fromAccount) # NoErr
    THEN Fail(assertAssetNotFrozen(st, p.assetID, p.fromAccount), st)
  ELSE IF HoldingOf(st, p.assetID, p.fromAccount).amount - p.amount < 0
    THEN Fail("INSUFFICIENT_ACCOUNT_ASSETS", st)
  ELSE
    LET s1 == [st EXCEPT !.accounts[p.fromAccount].assets[p.assetID].amount = @ - p.amount]
        s2 == [s1 EXCEPT !.accounts[p.toAccountAddr].assets[p.assetID].amount = @ + p.amount]
    IN IF p.closeRemainderTo = Blank THEN Ok(s2)
       ELSE IF getAssetHolding(s2, p.assetID, p.closeRemainderTo) # NoErr
         THEN Fail(getAssetHolding(s2, p.assetID, p.closeRemainderTo), s2)
       ELSE
         LET s3 == [s2 EXCEPT !.accounts[p.closeRemainderTo].assets[p.assetID].amount =
                                 @ + HoldingOf(s2, p.assetID, p.fromAccount).amount]
         IN Ok([s3 EXCEPT !.accounts[p.fromAccount].assets[p.assetID].amount = 0])

\* Ctx.transferAsset
transferAsset(st, p) ==
  IF getAssetHolding(st, p.assetID, p.fromAccount) # NoErr
    THEN Fail(getAssetHolding(st, p.assetID, p.fromAccount), st)
  ELSE IF getAssetHolding(st, p.assetID, p.toAccountAddr) # NoErr
    THEN Fail(getAssetHolding(st, p.assetID, p.toAccountAddr), st)
  ELSE IF assertAssetNotFrozen(st, p.assetID, p.fromAccount) # NoErr
    THEN Fail(assertAssetNotFrozen(st, p.assetID, p.fromAccount), st)
  ELSE IF assertAssetNotFrozen(st, p.assetID, p.toAccountAddr) # NoErr
    THEN Fail(assertAssetNotFrozen(st, p.assetID, p.toAccountAddr), st)
  ELSE IF HoldingOf(st, p.assetID, p.fromAccount).amount - p.amount < 0
    THEN Fail("INSUFFICIENT_ACCOUNT_ASSETS", st)
  ELSE
    LET s1 == [st EXCEPT !.accounts[p.fromAccount].assets[p.assetID].amount = @ - p.amount]
        s2 == [s1 EXCEPT !.accounts[p.toAccountAddr].assets[p.assetID].amount = @ + p.amount]
    IN IF p.closeRemainderTo = Blank THEN Ok(s2)
       ELSE IF getAssetHolding(s2, p.assetID, p.closeRemainderTo) # NoErr
         THEN Fail(getAssetHolding(s2, p.assetID, p.closeRemainderTo), s2)
       ELSE
         LET s3 == [s2 EXCEPT !.accounts[p.closeRemainderTo].assets[p.assetID].amount =
                                 @ + HoldingOf(s2, p.assetID, p.fromAccount).amount]
         IN Ok([s3 EXCEPT !.accounts[p.fromAccount].assets[p.assetID].amount = 0])

\* Ctx.modifyAsset
modifyAsset(st, assetId, fields) ==
  IF getAssetAccount(st, assetId) # NoErr THEN Fail(getAssetAccount(st, assetId), st)
  ELSE LET creator == st.assetDefs[assetId]
           r == AccountModifyAsset(st.accounts[creator], assetId, fields)
       IN IF r.err # NoErr THEN Fail(r.err, st)
          ELSE Ok([st EXCEPT !.accounts[creator] = r.acc])

\* Ctx.freezeAsset
freezeAsset(st, assetId, freezeTarget, freezeState) ==
  IF ~HasAccount(st, freezeTarget) THEN Fail("ACCOUNT_DOES_NOT_EXIST", st)
  ELSE LET r == AccountSetFreezeState(st.accounts[freezeTarget], assetId, freezeState)
       IN IF r.err # NoErr THEN Fail(r.err, st)
          ELSE Ok([st EXCEPT !.accounts[freezeTarget] = r.acc])

\* Ctx.revokeAsset
revokeAsset(st, recipient, assetID, revocationTarget, amount) ==
  IF getAssetHolding(st, assetID, revocationTarget) # NoErr
    THEN Fail(getAssetHolding(st, assetID, revocationTarget), st)
  ELSE IF getAssetHolding(st, assetID, recipient) # NoErr
    THEN Fail(getAssetHolding(st, assetID, recipient), st)
  ELSE IF HoldingOf(st, assetID, revocationTarget).amount - amount < 0
    THEN Fail("INSUFFICIENT_ACCOUNT_ASSETS", st)
  ELSE
    LET s1 == [st EXCEPT !.accounts[revocationTarget].assets[assetID].amount = @ - amount]
    IN Ok([s1 EXCEPT !.accounts[recipient].assets[assetID].amount = @ + amount])

\* Ctx.destroyAsset
destroyAsset(st, assetId) ==
  IF getAssetAccount(st, assetId) # NoErr THEN Fail(getAssetAccount(st, assetId), st)
  ELSE LET creator == st.assetDefs[assetId]
           r == AccountDestroyAsset(st.accounts[creator], assetId)
       IN IF r.err # NoErr THEN Fail(r.err, st)
          ELSE LET s1 == [st EXCEPT !.accounts[creator] = r.acc]
               IN Ok([s1 EXCEPT !.accounts =
                        [a \in DOMAIN s1.accounts |->
                           [s1.accounts[a] EXCEPT !.assets = MapDelete(@, assetId)]]])

\* Ctx.deleteApp
deleteApp(st, appId) ==
  IF appId \notin DOMAIN st.globalApps THEN Fail("APP_NOT_FOUND", st)
  ELSE IF ~HasAccount(st, st.globalApps[appId]) THEN Fail("ACCOUNT_DOES_NOT_EXIST", st)
  ELSE LET creator == st.globalApps[appId]
           r == AccountDeleteApp(st.accounts[creator], appId)
       IN IF r.err # NoErr THEN Fail(r.err, st)
          ELSE Ok([st EXCEPT !.accounts[creator] = r.acc,
                             !.globalApps = MapDelete(@, appId)])

\* Ctx.closeApp
closeApp(st, sender, appId) ==
  IF ~HasAccount(st, sender) THEN Fail("ACCOUNT_DOES_NOT_EXIST", st)
  ELSE IF getApp(st, appId) # NoErr THEN Fail(getApp(st, appId), st)
  ELSE Ok([st EXCEPT !.accounts[sender] = AccountCloseApp(@, appId)])


\* ---------------------------------------------------------------- Runtime
\* Runtime.run: verdict of executing a program under the interpreter.
\* A run ends accepted, rejected by logic (error number 1007) or in another
\* fatal error.
run(program) ==
  CASE program = "int 1" -> NoErr
    [] program = "int 0" -> "REJECTED_BY_LOGIC"
    [] OTHER             -> "TEAL_ENCOUNTERED_ERR"

\* the address of a program that is the address of no user account
LsigAddr == "L"

\* Runtime.assertAmbiguousTxnParams
assertAmbiguousTxnParams(p) ==
  IF p.sign = "SecretKey" /\ p.lsig.present THEN "INVALID_TRANSACTION_PARAMS" ELSE NoErr

\* LogicSig.verify: a logic signature that carries a signature verifies when
\* the signature over the program is by the key of the given account
\* (delegated mode); one that carries none verifies when the given account is
\* the address of the program itself (contract mode)
lsigVerify(lsig, address) ==
  IF lsig.signer = Blank THEN lsig.address = address ELSE lsig.signer = address

\* validateLsigAndRun running the program without verifying the signature
validateLsigAndRun_NoVerify(p) ==
  IF ~p.lsig.present THEN "LOGIC_SIGNATURE_NOT_FOUND"
  ELSE run(p.lsig.logic)

\* Runtime.validateLsigAndRun
validateLsigAndRun(p) ==
  IF ~p.lsig.present THEN "LOGIC_SIGNATURE_NOT_FOUND"
  ELSE IF ~lsigVerify(p.lsig, p.fromAccount) THEN "LOGIC_SIGNATURE_VALIDATION_FAILED"
  ELSE run(p.lsig.logic)

\* case ClearSSC of Ctx.processTransactions: [err, state, clear] with
\* clear = the clear program was rejected by logic (error number 1007) and the
\* application was closed nevertheless
clearSSC(st, p) ==
  IF getApp(st, p.appId) # NoErr
    THEN [err |-> getApp(st, p.appId), state |-> st, clear |-> FALSE]
  ELSE LET v  == run(AppOf(st, p.appId).clear)
           r0 == closeApp(st, p.fromAccount, p.appId)
       IN IF v = "REJECTED_BY_LOGIC"
            THEN [err |-> r0.err, state |-> r0.state, clear |-> r0.err = NoErr]
          ELSE IF v # NoErr THEN [err |-> v, state |-> st, clear |-> FALSE]
          ELSE [err |-> r0.err, state |-> r0.state, clear |-> FALSE]

\* the switch with the FreezeAsset case not comparing the sender with the freeze role
dispatch_NoFreezeRoleCheck(st, p) ==
  LET R(r) == [err |-> r.err, state |-> r.state, clear |-> FALSE]
      E(e) == [err |-> e, state |-> st, clear |-> FALSE]
  IN
  CASE p.type = "TransferAlgo"  -> R(transferAlgo(st, p))
    [] p.type = "TransferAsset" -> R(transferAsset(st, p))
    [] p.type = "CallNoOpSSC" ->
         IF getApp(st, p.appId) # NoErr THEN E(getApp(st, p.appId))
         ELSE E(run(AppOf(st, p.appId).approval))
    [] p.type = "CloseSSC" ->
         IF getApp(st, p.appId) # NoErr THEN E(getApp(st, p.appId))
         ELSE IF run(AppOf(st, p.appId).approval) # NoErr
           THEN E(run(AppOf(st, p.appId).approval))
         ELSE R(closeApp(st, p.fromAccount, p.appId))
    [] p.type = "ClearSSC" -> clearSSC(st, p)
    [] p.type = "DeleteSSC" ->
         IF getApp(st, p.appId) # NoErr THEN E(getApp(st, p.appId))
         ELSE IF run(AppOf(st, p.appId).approval) # NoErr
           THEN E(run(AppOf(st, p.appId).approval))
         ELSE R(deleteApp(st, p.appId))
    [] p.type = "ModifyAsset" ->
         IF getAssetDef(st, p.assetID) # NoErr THEN E(getAssetDef(st, p.assetID))
         ELSE IF AssetDefOf(st, p.assetID).manager # p.fromAccount THEN E("MANAGER_ERROR")
         ELSE R(modifyAsset(st, p.assetID, p.fields))
    [] p.type = "FreezeAsset" ->
         IF getAssetDef(st, p.assetID) # NoErr THEN E(getAssetDef(st, p.assetID))
         ELSE R(freezeAsset(st, p.assetID, p.freezeTarget, p.freezeState))
    [] p.type = "RevokeAsset" ->
         IF getAssetDef(st, p.assetID) # NoErr THEN E(getAssetDef(st, p.assetID))
         ELSE IF AssetDefOf(st, p.assetID).clawback # p.fromAccount THEN E("CLAWBACK_ERROR")
         ELSE R(revokeAsset(st, p.recipient, p.assetID, p.revocationTarget, p.amount))
    [] p.type = "DestroyAsset" ->
         IF getAssetDef(st, p.assetID) # NoErr THEN E(getAssetDef(st, p.assetID))
         ELSE IF AssetDefOf(st, p.assetID).manager # p.fromAccount THEN E("MANAGER_ERROR")
         ELSE R(destroyAsset(st, p.assetID))
    [] OTHER -> [err |-> NoErr, state |-> st, clear |-> FALSE]

\* the switch of Ctx.processTransactions for one transaction: [err, state, clear]
dispatch(st, p) ==
  LET R(r) == [err |-> r.err, state |-> r.state, clear |-> FALSE]
      E(e) == [err |-> e, state |-> st, clear |-> FALSE]
  IN
  CASE p.type = "TransferAlgo"  -> R(transferAlgo(st, p))
    [] p.type = "TransferAsset" -> R(transferAsset(st, p))
    [] p.type = "CallNoOpSSC" ->
         IF getApp(st, p.appId) # NoErr THEN E(getApp(st, p.appId))
         ELSE E(run(AppOf(st, p.appId).approval))
    [] p.type = "CloseSSC" ->
         IF getApp(st, p.appId) # NoErr THEN E(getApp(st, p.appId))
         ELSE IF run(AppOf(st, p.appId).approval) # NoErr
           THEN E(run(AppOf(st, p.appId).approval))
         ELSE R(closeApp(st, p.fromAccount, p.appId))
    [] p.type = "ClearSSC" -> clearSSC(st, p)
    [] p.type = "DeleteSSC" ->
         IF getApp(st, p.appId) # NoErr THEN E(getApp(st, p.appId))
         ELSE IF run(AppOf(st, p.appId).approval) # NoErr
           THEN E(run(AppOf(st, p.appId).approval))
         ELSE R(deleteApp(st, p.appId))
    [] p.type = "ModifyAsset" ->
         IF getAssetDef(st, p.assetID) # NoErr THEN E(getAssetDef(st, p.assetID))
         ELSE IF AssetDefOf(st, p.assetID).manager # p.fromAccount THEN E("MANAGER_ERROR")
         ELSE R(modifyAsset(st, p.assetID, p.fields))
    [] p.type = "FreezeAsset" ->
         IF getAssetDef(st, p.assetID) # NoErr THEN E(getAssetDef(st, p.assetID))
         ELSE IF AssetDefOf(st, p.assetID).freeze # p.fromAccount THEN E("FREEZE_ERROR")
         ELSE R(freezeAsset(st, p.assetID, p.freezeTarget, p.freezeState))
    [] p.type = "RevokeAsset" ->
         IF getAssetDef(st, p.assetID) # NoErr THEN E(getAssetDef(st, p.assetID))
         ELSE IF AssetDefOf(st, p.assetID).clawback # p.fromAccount THEN E("CLAWBACK_ERROR")
         ELSE R(revokeAsset(st, p.recipient, p.assetID, p.revocationTarget, p.amount))
    [] p.type = "DestroyAsset" ->
         IF getAssetDef(st, p.assetID) # NoErr THEN E(getAssetDef(st, p.assetID))
         ELSE IF AssetDefOf(st, p.assetID).manager # p.fromAccount THEN E("MANAGER_ERROR")
         ELSE R(destroyAsset(st, p.assetID))
    [] OTHER -> [err |-> NoErr, state |-> st, clear |-> FALSE]

\* the transaction types whose case of the switch runs a stateful program
SSCTypes == {"CallNoOpSSC", "CloseSSC", "ClearSSC", "DeleteSSC"}

\* the stateless run of the logic signature of transaction idx: current
\* transaction is set to gtxs[idx] around validateLsigAndRun
lsigRun(st, p, idx) ==
  IF p.sign = "LogicSignature" /\ p.lsig.present /\ lsigVerify(p.lsig, p.fromAccount)
    THEN << [idx |-> idx, mode |-> "STATELESS", tx |-> idx, state |-> st] >>
    ELSE << >>

\* the stateful run of the switch for transaction idx: the current transaction
\* has been put back to gtxs[0] (or never moved from it)
appRun(st, p, idx) ==
  IF p.type \in SSCTypes /\ getApp(st, p.appId) = NoErr
    THEN << [idx |-> idx, mode |-> "STATEFUL", tx |-> 0, state |-> st] >>
    ELSE << >>

\* processOne with the programs running on the state before the fee is deducted
processOne_RunBeforeFee(c, p, idx) ==
  LET f == deductFee(c.state, p.fromAccount, p.fee)
      stop(e, st, lg, rn) == [c EXCEPT !.err = e, !.errIdx = idx, !.state = st, !.log = lg,
                                       !.preFee = Append(@, c.state), !.runs = @ \o rn]
      logFee == Append(c.log, <<"fee", idx>>)
      logPay == Append(logFee, <<"payload", idx>>)
  IN
  IF f.err # NoErr THEN stop(f.err, f.state, c.log, << >>)
  ELSE IF assertAmbiguousTxnParams(p) # NoErr
    THEN stop(assertAmbiguousTxnParams(p), f.state, logFee, << >>)
  ELSE IF p.sign = "LogicSignature" /\ validateLsigAndRun(p) # NoErr
    THEN stop(validateLsigAndRun(p), f.state,
              IF p.lsig.present /\ lsigVerify(p.lsig, p.fromAccount) THEN logPay ELSE logFee,
              lsigRun(c.state, p, idx))
  ELSE
    LET d == dispatch(f.state, p)
    IN [err |-> d.err,
        errIdx |-> IF d.err # NoErr THEN idx ELSE c.errIdx,
        state |-> d.state,
        clearErrorBool |-> c.clearErrorBool \/ d.clear,
        log |-> logPay,
        preFee |-> Append(c.preFee, c.state),
        pre |-> Append(c.pre, f.state),
        runs |-> c.runs \o lsigRun(c.state, p, idx) \o appRun(c.state, p, idx)]

\* One iteration of the forEach of Ctx.processTransactions, on the context
\* c = [err, errIdx, state, clearErrorBool, log, preFee, pre, runs]; idx counts
\* from 0.
\* log lists the fee deductions and payload starts in the order they happen,
\* preFee[idx+1] is the context state before the fee of transaction idx is
\* deducted, pre[idx+1] the one the payload of transaction idx starts from.
\* runs lists the program runs: the position idx of the transaction the
\* program is attached to, the execution mode, the position tx of the
\* transaction that is current (ctx.tx) during the run, and the context state
\* the program reads.
processOne(c, p, idx) ==
  LET f == deductFee(c.state, p.fromAccount, p.fee)
      stop(e, st, lg, rn) == [c EXCEPT !.err = e, !.errIdx = idx, !.state = st, !.log = lg,
                                       !.preFee = Append(@, c.state), !.runs = @ \o rn]
      logFee == Append(c.log, <<"fee", idx>>)
      logPay == Append(logFee, <<"payload", idx>>)
  IN
  IF f.err # NoErr THEN stop(f.err, f.state, c.log, << >>)
  ELSE IF assertAmbiguousTxnParams(p) # NoErr
    THEN stop(assertAmbiguousTxnParams(p), f.state, logFee, << >>)
  ELSE IF p.sign = "LogicSignature" /\ validateLsigAndRun(p) # NoErr
    THEN stop(validateLsigAndRun(p), f.state,
              IF p.lsig.present /\ lsigVerify(p.lsig, p.fromAccount) THEN logPay ELSE logFee,
              lsigRun(f.state, p, idx))
  ELSE
    LET d == dispatch(f.state, p)
    IN [err |-> d.err,
        errIdx |-> IF d.err # NoErr THEN idx ELSE c.errIdx,
        state |-> d.state,
        clearErrorBool |-> c.clearErrorBool \/ d.clear,
        log |-> logPay,
        preFee |-> Append(c.preFee, c.state),
        pre |-> Append(c.pre, f.state),
        runs |-> c.runs \o lsigRun(f.state, p, idx) \o appRun(f.state, p, idx)]

RECURSIVE processFrom(_, _, _)
processFrom(c, txnParams, idx) ==
  IF idx >= Len(txnParams) \/ c.err # NoErr THEN c
  ELSE processFrom(processOne(c, txnParams[idx + 1], idx), txnParams, idx + 1)

\* the context before the first transaction is processed
NewCtx(st) ==
  [err |-> NoErr, errIdx |-> -1, state |-> st, clearErrorBool |-> FALSE,
   log |-> << >>, preFee |-> << >>, pre |-> << >>, runs |-> << >>]

\* Ctx.processTransactions on the context state st
processTransactions(st, txnParams) == processFrom(NewCtx(st), txnParams, 0)

\* the grp field of a transaction that was given no group identifier
NoGrp == "none"

\* Runtime.createTxnContext, the encoded transactions it returns as gtxs: one
\* per parameter record, with its transaction id; grp is never assigned
mkTxns(txnParams) ==
  [i \in 1..Len(txnParams) |->
     [params |-> txnParams[i], txID |-> <<"txID", txnParams[i]>>, grp |-> NoGrp]]

\* createTxnContext refusing a group of MaxGroupSize transactions already
createTxnContext_OffByOne(txnParams) ==
  IF Len(txnParams) >= MaxGroupSize THEN "GROUP_TOO_LARGE" ELSE NoErr

\* Runtime.createTxnContext: the group size check
createTxnContext(txnParams) ==
  IF Len(txnParams) > MaxGroupSize THEN "GROUP_TOO_LARGE" ELSE NoErr

\* lodash cloneDeep of the store: a value equal to the store, sharing nothing
cloneDeep(st) == st

\* Runtime.executeTx, the caller of Ctx.processTransactions: the group is
\* processed on a context made of a deep copy of the store, and the context
\* state becomes the store when processTransactions has not thrown.  The
\* result is [ok, err, store, clearErrorBool, ctx]: store is the canonical
\* state after the call, clearErrorBool what processTransactions returned (a
\* clear program was rejected by logic and its application closed
\* nevertheless), ctx the outcome of processing the group on the context.
executeTx(st, txnParams) ==
  LET ctx == processTransactions(cloneDeep(st), txnParams)
  IN IF createTxnContext(txnParams) # NoErr
       THEN [ok |-> FALSE, err |-> createTxnContext(txnParams), store |-> st,
             clearErrorBool |-> FALSE, ctx |-> NewCtx(cloneDeep(st))]
     ELSE IF ctx.err # NoErr
       THEN [ok |-> FALSE, err |-> ctx.err, store |-> st,
             clearErrorBool |-> FALSE, ctx |-> ctx]
     ELSE [ok |-> TRUE, err |-> NoErr, store |-> ctx.state,
           clearErrorBool |-> ctx.clearErrorBool, ctx |-> ctx]

\* ------------------------------------------------------------------ inputs
NoLsig   == [present |-> FALSE, signer |-> Blank, address |-> Blank, logic |-> ""]
NoFields == [manager |-> Blank, reserve |-> Blank, freeze |-> Blank, clawback |-> Blank]

\* transaction parameters (ExecParams) with every field, unused ones at rest
Tx0 == [type |-> "", sign |-> "SecretKey", lsig |-> NoLsig, fromAccount |-> "A",
        fee |-> 1, toAccountAddr |-> Blank, amountMicroAlgos |-> 0,
        closeRemainderTo |-> Blank, assetID |-> 0, amount |-> 0, appId |-> 0,
        fields |-> NoFields, freezeTarget |-> Blank, freezeState |-> FALSE,
        recipient |-> Blank, revocationTarget |-> Blank]

Fees    == 1..MaxFee
Amounts == {0, 1, MaxAmt}

AlgoTxns ==
  {[Tx0 EXCEPT !.type = "TransferAlgo", !.fromAccount = f, !.toAccountAddr = t,
               !.amountMicroAlgos = a, !.closeRemainderTo = c, !.fee = fe] :
     f \in Addr, t \in {"B", Ghost}, a \in Amounts, c \in {Blank, "C", Ghost},
     fe \in Fees}

\* logic signatures: signer is the account whose key signed the program (blank
\* when the logic signature carries no signature), address the address of the
\* program, logic a program with the verdict of that text
LsigSet ==
  {[present |-> TRUE, signer |-> s, address |-> LsigAddr, logic |-> l] :
     s \in {"A", "B"}, l \in {"int 1", "int 0"}}
  \cup
  {[present |-> TRUE, signer |-> Blank, address |-> a, logic |-> l] :
     a \in {"A", "B"}, l \in {"int 1", "int 0"}}

LsigTxns ==
  {[Tx0 EXCEPT !.type = "TransferAlgo", !.fromAccount = "A", !.toAccountAddr = "C",
               !.amountMicroAlgos = 1, !.sign = sg, !.lsig = l] :
     sg \in {"SecretKey", "LogicSignature"}, l \in LsigSet \cup {NoLsig}}

AssetTransferTxns ==
  {[Tx0 EXCEPT !.type = "TransferAsset", !.fromAccount = f, !.toAccountAddr = t,
               !.assetID = AssetId1, !.amount = a, !.closeRemainderTo = c] :
     f \in Addr, t \in {"B", "C"}, a \in Amounts, c \in {Blank, "A"}}

FieldsSet ==
  {[manager |-> m, reserve |-> r, freeze |-> fz, clawback |-> cb] :
     m \in {"A", Blank}, r \in {"A", Blank}, fz \in {"B", Blank}, cb \in {"A", Blank}}

AssetAdminTxns ==
  {[Tx0 EXCEPT !.type = "ModifyAsset", !.fromAccount = f, !.assetID = AssetId1,
               !.fields = fl] : f \in {"A", "C"}, fl \in FieldsSet}
  \cup
  {[Tx0 EXCEPT !.type = "FreezeAsset", !.fromAccount = f, !.assetID = AssetId1,
               !.freezeTarget = t, !.freezeState = b] :
     f \in {"B", "C"}, t \in Addr, b \in BOOLEAN}
  \cup
  {[Tx0 EXCEPT !.type = "RevokeAsset", !.fromAccount = f, !.assetID = AssetId1,
               !.recipient = r, !.revocationTarget = t, !.amount = a] :
     f \in {"A", "C"}, r \in {"A", "B"}, t \in Addr, a \in Amounts \ {0}}
  \cup
  {[Tx0 EXCEPT !.type = "DestroyAsset", !.fromAccount = f, !.assetID = i] :
     f \in {"A", "C"}, i \in {AssetId1, AssetId1 + 1}}

AppTxns ==
  {[Tx0 EXCEPT !.type = ty, !.fromAccount = f, !.appId = i] :
     ty \in {"CallNoOpSSC", "CloseSSC", "ClearSSC", "DeleteSSC"},
     f \in {"A", "B"}, i \in {AppId1, AppId2, AppId2 + 1}}

TxnSet == AlgoTxns \cup LsigTxns \cup AssetTransferTxns \cup AssetAdminTxns \cup AppTxns

\* transactions combined into groups of two
PairTxns ==
  {[Tx0 EXCEPT !.type = "TransferAlgo", !.fromAccount = "A", !.toAccountAddr = "B",
               !.amountMicroAlgos = 1],
   [Tx0 EXCEPT !.type = "TransferAlgo", !.fromAccount = "B", !.toAccountAddr = "C",
               !.amountMicroAlgos = 1],
   [Tx0 EXCEPT !.type = "TransferAlgo", !.fromAccount = "B", !.toAccountAddr = "A",
               !.amountMicroAlgos = MaxAmt + 1],
   [Tx0 EXCEPT !.type = "TransferAlgo", !.fromAccount = "B", !.toAccountAddr = "C",
               !.amountMicroAlgos = 0, !.closeRemainderTo = "A"]}
  \cup
  {[Tx0 EXCEPT !.type = "TransferAsset", !.fromAccount = f, !.toAccountAddr = t,
               !.assetID = AssetId1, !.amount = 1] : f \in {"A", "B"}, t \in {"B"}}
  \cup
  {[Tx0 EXCEPT !.type = "FreezeAsset", !.fromAccount = "C", !.assetID = AssetId1,
               !.freezeTarget = "B", !.freezeState = TRUE],
   [Tx0 EXCEPT !.type = "ModifyAsset", !.fromAccount = "C", !.assetID = AssetId1,
               !.fields = [manager |-> "A", reserve |-> Blank, freeze |-> "B", clawback |-> "A"]],
   [Tx0 EXCEPT !.type = "DestroyAsset", !.fromAccount = "C", !.assetID = AssetId1],
   [Tx0 EXCEPT !.type = "ClearSSC", !.fromAccount = "B", !.appId = AppId1],
   [Tx0 EXCEPT !.type = "DeleteSSC", !.fromAccount = "A", !.appId = AppId1]}

\* every group the properties of executeTx are stated for
Groups == {<<t>> : t \in TxnSet} \cup {<<t, u>> : t \in PairTxns, u \in PairTxns}

\* the groups holding a transaction of one type
ClearGroups    == {g \in Groups : \E i \in 1..Len(g) : g[i].type = "ClearSSC"}
ModifyGroups   == {g \in Groups : \E i \in 1..Len(g) : g[i].type = "ModifyAsset"}
RevokeGroups   == {g \in Groups : \E i \in 1..Len(g) : g[i].type = "RevokeAsset"}
TransferAssetGroups == {g \in Groups : \E i \in 1..Len(g) : g[i].type = "TransferAsset"}
DestroyGroups  == {g \in Groups : \E i \in 1..Len(g) : g[i].type = "DestroyAsset"}
AdminTypes     == {"ModifyAsset", "FreezeAsset", "RevokeAsset", "DestroyAsset"}
AdminGroups    == {g \in Groups : \E i \in 1..Len(g) : g[i].type \in AdminTypes}

\* the groups the runtime is driven with
StepTxns ==
  {[Tx0 EXCEPT !.type = "TransferAlgo", !.fromAccount = "A", !.toAccountAddr = "B",
               !.amountMicroAlgos = 1],
   [Tx0 EXCEPT !.type = "TransferAlgo", !.fromAccount = "B", !.toAccountAddr = "C",
               !.amountMicroAlgos = 0, !.closeRemainderTo = "A"],
   [Tx0 EXCEPT !.type = "TransferAlgo", !.fromAccount = "A", !.toAccountAddr = "C",
               !.amountMicroAlgos = 1, !.sign = "LogicSignature",
               !.lsig = [present |-> TRUE, signer |-> "A", address |-> LsigAddr,
                        logic |-> "int 1"]],
   [Tx0 EXCEPT !.type = "TransferAsset", !.fromAccount = "A", !.toAccountAddr = "B",
               !.assetID = AssetId1, !.amount = 1],
   [Tx0 EXCEPT !.type = "TransferAsset", !.fromAccount = "B", !.toAccountAddr = "A",
               !.assetID = AssetId1, !.amount = 0, !.closeRemainderTo = "A"],
   [Tx0 EXCEPT !.type = "ModifyAsset", !.fromAccount = "C", !.assetID = AssetId1,
               !.fields = [manager |-> "A", reserve |-> Blank, freeze |-> "B", clawback |-> "A"]],
   [Tx0 EXCEPT !.type = "ModifyAsset", !.fromAccount = "C", !.assetID = AssetId1,
               !.fields = [manager |-> "A", reserve |-> "A", freeze |-> "B", clawback |-> "A"]],
   [Tx0 EXCEPT !.type = "FreezeAsset", !.fromAccount = "C", !.assetID = AssetId1,
               !.freezeTarget = "B", !.freezeState = TRUE],
   [Tx0 EXCEPT !.type = "FreezeAsset", !.fromAccount = "C", !.assetID = AssetId1,
               !.freezeTarget = "A", !.freezeState = TRUE],
   [Tx0 EXCEPT !.type = "FreezeAsset", !.fromAccount = "B", !.assetID = AssetId1,
               !.freezeTarget = "B", !.freezeState = FALSE],
   [Tx0 EXCEPT !.type = "RevokeAsset", !.fromAccount = "C", !.assetID = AssetId1,
               !.recipient = "A", !.revocationTarget = "B", !.amount = 1],
   [Tx0 EXCEPT !.type = "DestroyAsset", !.fromAccount = "C", !.assetID = AssetId1],
   [Tx0 EXCEPT !.type = "CallNoOpSSC", !.fromAccount = "B", !.appId = AppId1],
   [Tx0 EXCEPT !.type = "CloseSSC", !.fromAccount = "C", !.appId = AppId1],
   [Tx0 EXCEPT !.type = "ClearSSC", !.fromAccount = "B", !.appId = AppId1],
   [Tx0 EXCEPT !.type = "DeleteSSC", !.fromAccount = "A", !.appId = AppId1]}

StepGroups ==
  {<<t>> : t \in StepTxns}
  \cup {<<t, u>> : t \in {x \in StepTxns : x.type = "TransferAlgo"},
                   u \in {x \in StepTxns : x.type \in {"TransferAsset", "ClearSSC"}}}

\* ------------------------------------------------------------- initial world
NewAccount == [amount |-> InitBalance, minBalance |-> MinBal,
               assets |-> << >>, appsLocalState |-> << >>,
               createdApps |-> << >>, createdAssets |-> << >>]

\* the world set up before the first group: account A has created asset 1
\* (manager, freeze and clawback held by C, no reserve) and the applications
\* 1 and 2; A and B have opted in to the asset, B and C to application 1
InitStore ==
  [accounts |->
     [a \in Addr |->
        CASE a = "A" ->
               [NewAccount EXCEPT
                  !.assets = (AssetId1 :> [amount |-> AssetTotal, frozen |-> FALSE]),
                  !.createdAssets = (AssetId1 :>
                     [total |-> AssetTotal, manager |-> "C", reserve |-> Blank,
                      freeze |-> "C", clawback |-> "C"]),
                  !.createdApps = (AppId1 :> [approval |-> "int 1", clear |-> "int 0"])
                                  @@ (AppId2 :> [approval |-> "int 0", clear |-> "err"])]
          [] a = "B" ->
               [NewAccount EXCEPT
                  !.assets = (AssetId1 :> [amount |-> 0, frozen |-> FALSE]),
                  !.appsLocalState = (AppId1 :> [l |-> "lv"])]
          [] OTHER ->
               [NewAccount EXCEPT !.appsLocalState = (AppId1 :> [l |-> "lv"])]],
   globalApps |-> (AppId1 :> "A") @@ (AppId2 :> "A"),
   assetDefs  |-> (AssetId1 :> "A")]

Init ==
  /\ store = InitStore
  /\ outcome = [ok |-> TRUE, err |-> NoErr, clear |-> FALSE, n |-> 0]

\* ----------------------------------------------------------------- actions
\* runtime.executeTx(txnParams)
ExecuteTx(g) ==
  LET r == executeTx(store, g)
  IN /\ store' = r.store
     /\ outcome' = [ok |-> r.ok, err |-> r.err, clear |-> r.clearErrorBool,
                     n |-> IF r.ok THEN Len(g) ELSE 0]

Next == \E g \in StepGroups : ExecuteTx(g)

Spec == Init /\ [][Next]_vars

\* ---------------------------------------------------------------- properties
\* state after the payload of the i-th transaction (from 1) of a group g that
\* executeTx(st, g) = r accepted
PostOf(r, g, i) == IF i < Len(g) THEN r.ctx.preFee[i + 1] ELSE r.store


\* C2 as stated: the fees of all transactions of a group are deducted before
\* the payload of any of them executes.
C2_AllFeesBeforeAnyPayload ==
  \A g \in Groups :
    LET lg == executeTx(store, g).ctx.log
    IN \A j, k \in 1..Len(lg) :
         (lg[j][1] = "payload" /\ lg[k][1] = "fee") => k < j

\* C2 amended: the fee of each transaction is deducted, in declared order,
\* just before that transaction's own payload and after the payloads of the
\* earlier transactions; a fee deduction that would take the sender below its
\* minimum balance rejects the group at that transaction.
C2_FeeBeforeOwnPayload ==
  \A g \in Groups :
    LET r  == executeTx(store, g)
        lg == r.ctx.log
    IN /\ \A k \in 1..Len(lg) :
            lg[k] = <<IF k % 2 = 1 THEN "fee" ELSE "payload", (k - 1) \div 2>>
       /\ \A i \in 1..Len(r.ctx.preFee) :
            LET s == r.ctx.preFee[i]
                p == g[i]
            IN /\ (s.accounts[p.fromAccount].amount - p.fee
                     < s.accounts[p.fromAccount].minBalance)
                  => (~r.ok /\ r.err = "INSUFFICIENT_ACCOUNT_BALANCE"
                            /\ r.ctx.errIdx = i - 1 /\ r.store = store)
               /\ i <= Len(r.ctx.pre)
                  => r.ctx.pre[i] =
                       [s EXCEPT !.accounts[p.fromAccount].amount = @ - p.fee]

\* a group of two transactions was accepted, and some group of two is rejected
\* here because the fee of its second transaction cannot be paid
C2_Witness ==
  /\ outcome.ok
  /\ outcome.n = 2
  /\ \E g \in Groups :
       LET r == executeTx(store, g)
       IN /\ Len(g) = 2 /\ ~r.ok /\ r.ctx.errIdx = 1
          /\ Len(r.ctx.pre) = 1
          /\ r.err = "INSUFFICIENT_ACCOUNT_BALANCE"

\* C4 as stated: after every accepted group every account has a balance of at
\* least its minimum balance.
C4_BalanceAtLeastMin ==
  \A a \in DOMAIN store.accounts :
    store.accounts[a].amount >= store.accounts[a].minBalance

\* C4 amended: an accepted group leaves at or above its minimum balance every
\* account whose balance was at least its minimum balance before the group
\* and that is not the sender of a TransferAlgo with closeRemainderTo in the
\* group.
C4_BalanceAtLeastMinUnlessClosed ==
  \A g \in Groups :
    LET r == executeTx(store, g)
    IN r.ok =>
         \A a \in DOMAIN store.accounts :
           (/\ store.accounts[a].amount >= store.accounts[a].minBalance
            /\ ~\E i \in 1..Len(g) : /\ g[i].type = "TransferAlgo"
                                     /\ g[i].closeRemainderTo # Blank
                                     /\ g[i].fromAccount = a)
           => r.store.accounts[a].amount >= r.store.accounts[a].minBalance

\* an accepted group closed B with closeRemainderTo, the other accounts are
\* at or above their minimum
C4_Witness ==
  /\ outcome.ok
  /\ store.accounts["B"].amount = 0
  /\ \A a \in Addr \ {"B"} : store.accounts[a].amount >= store.accounts[a].minBalance

\* C5: every account that holds local state of an application p has p in
\* globalApps, also after a DeleteSSC.
C5_OptedInAppIsGlobal ==
  \A a \in DOMAIN store.accounts :
    \A appId \in DOMAIN store.accounts[a].appsLocalState :
      appId \in DOMAIN store.globalApps

\* C6: every asset id of assetDefs has an entry in the createdAssets of its
\* creator, also after a DestroyAsset.
C6_AssetDefHasCreatedAsset ==
  \A assetId \in DOMAIN store.assetDefs :
    /\ store.assetDefs[assetId] \in DOMAIN store.accounts
    /\ assetId \in DOMAIN store.accounts[store.assetDefs[assetId]].createdAssets

\* C8: a ModifyAsset that supplies an address for a role whose address is blank
\* is rejected, with "Cannot reset a blank address" when it comes from the
\* manager, and the parameters of the asset stay as they were.
C8_BlankRoleNotReset ==
  \A g \in ModifyGroups :
    LET r == executeTx(store, g)
    IN \A i \in 1..Len(r.ctx.pre) :
         LET s == r.ctx.pre[i]
             p == g[i]
         IN (/\ p.type = "ModifyAsset"
             /\ getAssetDef(s, p.assetID) = NoErr
             /\ \E role \in Roles : /\ AssetDefOf(s, p.assetID)[role] = Blank
                                    /\ p.fields[role] # Blank)
            => /\ ~r.ok
               /\ r.ctx.errIdx = i - 1
               /\ AssetDefOf(s, p.assetID).manager = p.fromAccount
                    => r.err = "BLANK_ADDRESS_ERROR"
               /\ AssetDefOf(r.ctx.state, p.assetID) = AssetDefOf(s, p.assetID)
               /\ r.store = store

\* the manager's ModifyAsset giving the blank reserve an address was rejected
C8_Witness ==
  /\ ~outcome.ok
  /\ outcome.err = "BLANK_ADDRESS_ERROR"
  /\ getAssetDef(store, AssetId1) = NoErr
  /\ AssetDefOf(store, AssetId1).reserve = Blank

\* C9: a RevokeAsset whose revocation target's holding is frozen is rejected
\* with ACCOUNT_ASSET_FROZEN and changes no holding.
C9_RevokeFrozenRejected ==
  \A g \in RevokeGroups :
    LET r == executeTx(store, g)
    IN \A i \in 1..Len(r.ctx.pre) :
         LET s == r.ctx.pre[i]
             p == g[i]
         IN (/\ p.type = "RevokeAsset"
             /\ getAssetDef(s, p.assetID) = NoErr
             /\ AssetDefOf(s, p.assetID).clawback = p.fromAccount
             /\ getAssetHolding(s, p.assetID, p.revocationTarget) = NoErr
             /\ getAssetHolding(s, p.assetID, p.recipient) = NoErr
             /\ HoldingOf(s, p.assetID, p.revocationTarget).amount >= p.amount
             /\ HoldingOf(s, p.assetID, p.revocationTarget).frozen)
            => /\ ~r.ok
               /\ r.err = "ACCOUNT_ASSET_FROZEN"
               /\ r.store = store

\* C10: a TransferAsset is rejected, with no holding changed, when the sender or
\* the receiver has not opted in to the asset (ASA_NOT_OPTIN) or the holding of
\* one of them is frozen (ACCOUNT_ASSET_FROZEN).
C10_TransferAssetGuards ==
  \A g \in TransferAssetGroups :
    LET r == executeTx(store, g)
    IN \A i \in 1..Len(r.ctx.pre) :
         LET s == r.ctx.pre[i]
             p == g[i]
             NotOptedIn(a) == p.assetID \notin DOMAIN s.accounts[a].assets
             Frozen(a)     == ~NotOptedIn(a) /\ s.accounts[a].assets[p.assetID].frozen
             from == p.fromAccount
             to   == p.toAccountAddr
         IN (/\ p.type = "TransferAsset"
             /\ HasAccount(s, from) /\ HasAccount(s, to)
             /\ NotOptedIn(from) \/ NotOptedIn(to) \/ Frozen(from) \/ Frozen(to))
            => /\ ~r.ok
               /\ r.ctx.errIdx = i - 1
               /\ r.err = IF NotOptedIn(from) \/ NotOptedIn(to)
                            THEN "ASA_NOT_OPTIN" ELSE "ACCOUNT_ASSET_FROZEN"
               /\ r.ctx.state = s
               /\ r.store = store

\* a TransferAsset was rejected on a frozen holding: B's holding is frozen while
\* A's is not, so the transfer from A to B failed on the receiver
C10_Witness ==
  /\ ~outcome.ok
  /\ outcome.err = "ACCOUNT_ASSET_FROZEN"
  /\ getAssetHolding(store, AssetId1, "A") = NoErr
  /\ getAssetHolding(store, AssetId1, "B") = NoErr
  /\ ~HoldingOf(store, AssetId1, "A").frozen
  /\ HoldingOf(store, AssetId1, "B").frozen

\* the role of the asset definition an administration transaction must come
\* from, and the error raised when it does not
RoleOf(type) ==
  CASE type = "FreezeAsset" -> "freeze"
    [] type = "RevokeAsset" -> "clawback"
    [] OTHER                -> "manager"

RoleError(type) ==
  CASE type = "FreezeAsset" -> "FREEZE_ERROR"
    [] type = "RevokeAsset" -> "CLAWBACK_ERROR"
    [] OTHER                -> "MANAGER_ERROR"

\* C11: an asset administration transaction whose sender is not the address in
\* the matching role (manager for ModifyAsset and DestroyAsset, freeze for
\* FreezeAsset, clawback for RevokeAsset) of the definition in force when the
\* transaction executes is rejected; definition and holdings stay unchanged.
C11_AdminRoleRequired ==
  \A g \in AdminGroups :
    LET r == executeTx(store, g)
    IN \A i \in 1..Len(r.ctx.pre) :
         LET s == r.ctx.pre[i]
             p == g[i]
         IN (/\ p.type \in AdminTypes
             /\ getAssetDef(s, p.assetID) = NoErr
             /\ AssetDefOf(s, p.assetID)[RoleOf(p.type)] # p.fromAccount)
            => /\ ~r.ok
               /\ r.ctx.errIdx = i - 1
               /\ r.err = RoleError(p.type)
               /\ r.ctx.state = s
               /\ r.store = store

\* after an accepted ModifyAsset moved the freeze role from C to B, the
\* FreezeAsset sent by C was rejected
C11_Witness ==
  /\ ~outcome.ok
  /\ outcome.err = "FREEZE_ERROR"
  /\ getAssetDef(store, AssetId1) = NoErr
  /\ AssetDefOf(store, AssetId1).freeze = "B"

\* C12: a DestroyAsset goes through only when the creator of the asset holds
\* the total supply; otherwise it is rejected and the definition and every
\* holding remain as they were.
C12_DestroyNeedsTotalSupply ==
  \A g \in DestroyGroups :
    LET r == executeTx(store, g)
    IN \A i \in 1..Len(r.ctx.pre) :
         LET s == r.ctx.pre[i]
             p == g[i]
             creator == s.assetDefs[p.assetID]
             HoldsAll ==
               /\ p.assetID \in DOMAIN s.accounts[creator].assets
               /\ s.accounts[creator].assets[p.assetID].amount
                    = AssetDefOf(s, p.assetID).total
         IN (p.type = "DestroyAsset" /\ getAssetDef(s, p.assetID) = NoErr)
            => /\ r.ctx.errIdx # i - 1 => HoldsAll
               /\ ~HoldsAll =>
                    /\ ~r.ok
                    /\ r.ctx.errIdx = i - 1
                    /\ r.ctx.state = s
                    /\ r.store = store
                    /\ AssetDefOf(s, p.assetID).manager = p.fromAccount
                         => r.err \in {"ASSET_TOTAL_ERROR", "ASSET_NOT_FOUND"}

\* the manager's DestroyAsset was rejected while B held a part of the supply
C12_Witness ==
  /\ ~outcome.ok
  /\ outcome.err = "ASSET_TOTAL_ERROR"
  /\ getAssetDef(store, AssetId1) = NoErr
  /\ HoldingOf(store, AssetId1, "B").amount > 0

\* ------------------------------------------------ payment scenario (micro-units)
\* a store of the two accounts A and B with the given balances and minimum
\* balance (none, 100, or the base minimum of 10000 micro-units), no asset and
\* no application
ScenStore(balA, balB, minBal) ==
  [accounts |->
     [a \in {"A", "B"} |->
        [NewAccount EXCEPT !.amount = IF a = "A" THEN balA ELSE balB,
                           !.minBalance = minBal]],
   globalApps |-> << >>,
   assetDefs  |-> << >>]

\* TransferAlgo between A and B signed by a logic signature of the sender
ScenTxns ==
  {[Tx0 EXCEPT !.type = "TransferAlgo", !.fromAccount = f,
               !.toAccountAddr = IF f = "A" THEN "B" ELSE "A",
               !.amountMicroAlgos = a, !.fee = 1000, !.sign = "LogicSignature",
               !.lsig = [present |-> TRUE, signer |-> f, address |-> LsigAddr,
                         logic |-> l]] :
     f \in {"A", "B"}, a \in {50, 100}, l \in {"int 1", "int 0"}}

\* TransferAlgo(A -> B, amount = 100, fee = 1000) with the program int 1
ScenTx ==
  [Tx0 EXCEPT !.type = "TransferAlgo", !.fromAccount = "A", !.toAccountAddr = "B",
              !.amountMicroAlgos = 100, !.fee = 1000, !.sign = "LogicSignature",
              !.lsig = [present |-> TRUE, signer |-> "A", address |-> LsigAddr,
                        logic |-> "int 1"]]

\* transfers of 50 between A and B marked as signed by logic signature: the
\* logic signature is signed by the sender, signed by the other account (the
\* submitter substituted fromAccount), unsigned with the sender or the other
\* account as the address of its program, or missing
ScenLsigTxns ==
  {[ScenTx EXCEPT !.fromAccount = f, !.toAccountAddr = IF f = "A" THEN "B" ELSE "A",
                  !.amountMicroAlgos = 50, !.lsig = l] :
     f \in {"A", "B"}, l \in LsigSet \cup {NoLsig}}

\* the transfers out of a contract account whose program accepts
ScenContractTxns ==
  {t \in ScenLsigTxns : t.lsig.present /\ t.lsig.signer = Blank /\ t.lsig.logic = "int 1"
                        /\ lsigVerify(t.lsig, t.fromAccount)}

\* the transfers whose logic signature accepts but does not verify: signed by
\* the other account, or unsigned with a program of another address
ScenForgedTxns ==
  {t \in ScenLsigTxns : t.lsig.present /\ t.lsig.logic = "int 1"
                        /\ ~lsigVerify(t.lsig, t.fromAccount)}

\* each of them alone, and after a transfer whose logic signature verifies
\* and accepts
ScenLsigGroups ==
  {<<t>> : t \in ScenLsigTxns}
  \cup {<<t, u>> : t \in {x \in ScenLsigTxns : x.lsig.present /\ x.lsig.logic = "int 1"
                                               /\ lsigVerify(x.lsig, x.fromAccount)},
                   u \in ScenLsigTxns}

\* groups of one transaction repeated, up to and beyond the size limit
SizeGroups ==
  {[i \in 1..n |-> tx] :
     n \in {1, 2, MaxGroupSize - 1, MaxGroupSize, MaxGroupSize + 1, MaxGroupSize + 2},
     tx \in {t \in ScenTxns : t.fromAccount = "A" /\ t.amountMicroAlgos = 50}}

InitScen ==
  /\ \E balA \in {1000, 2000, 20000}, balB \in {500, 3000}, minBal \in {0, 100, 10000} :
       store = ScenStore(balA, balB, minBal)
  /\ outcome = [ok |-> TRUE, err |-> NoErr, clear |-> FALSE, n |-> 0]

NextScen ==
  \/ \E tx \in ScenTxns : ExecuteTx(<<tx>>)
  \/ \E g \in SizeGroups : ExecuteTx(g)
  \/ \E tx \in ScenForgedTxns : ExecuteTx(<<tx>>)
  \/ \E tx \in ScenContractTxns : ExecuteTx(<<tx>>)

SpecScen == InitScen /\ [][NextScen]_vars

C14_GroupSizeLimit ==
  \A g \in SizeGroups :
    LET r    == executeTx(store, g)
        a    == store.accounts["A"]
        cost == Len(g) * (g[1].fee + g[1].amountMicroAlgos)
    IN /\ Len(g) > 16 =>
            /\ ~r.ok
            /\ r.err = "GROUP_TOO_LARGE"
            /\ r.ctx.log = << >>
            /\ r.ctx.state = store
            /\ r.store = store
       /\ Len(g) <= 16 =>
            /\ r.err # "GROUP_TOO_LARGE"
            /\ (g[1].lsig.logic = "int 1" /\ a.amount - cost >= a.minBalance) => r.ok

\* a group of 17 or 18 transactions was rejected for its size, after a group of
\* 16 transfers of 50 had been accepted from A's 20000 (16 * 1050 = 16800)
C14_Witness ==
  /\ ~outcome.ok
  /\ outcome.err = "GROUP_TOO_LARGE"
  /\ store.accounts["A"].amount = 20000 - MaxGroupSize * 1050

\* C15: whenever executeTx is given a group of 2 or more transactions, every
\* transaction of the group carries the same computed group identifier in its
\* grp field before any program or payload of the group executes (stated for
\* the groups whose processing gets as far as the first fee).
C15_GroupHasGroupId ==
  \A g \in Groups :
    (Len(g) >= 2 /\ executeTx(store, g).ctx.log # << >>) =>
      LET gtxs == mkTxns(g)
      IN /\ \A i \in 1..Len(gtxs) : gtxs[i].grp # NoGrp
         /\ \A i, j \in 1..Len(gtxs) : gtxs[i].grp = gtxs[j].grp

\* C16: while any program (stateless logic signature or stateful approval or
\* clear program) attached to the transaction at position i of a group executes,
\* the current transaction is the group's i-th transaction, so that txn fields
\* read that transaction and GroupIndex evaluates to i.
C16_CurrentTxIsOwnTx ==
  \A g \in Groups :
    LET runs == executeTx(store, g).ctx.runs
    IN \A k \in 1..Len(runs) : runs[k].tx = runs[k].idx

\* C17 as stated: a transaction signed by logic signature is accepted only if
\* the logic signature verifies against fromAccount and its program accepts in
\* stateless mode; when the verification of the logic signature of a
\* transaction the processing of the group gets to fails, the group is
\* rejected with LOGIC_SIGNATURE_VALIDATION_FAILED and the store does not
\* change.
C17_LsigMustVerifyAsStated ==
  \A g \in ScenLsigGroups :
    LET r == executeTx(store, g)
    IN /\ r.ok =>
            \A i \in 1..Len(g) :
              g[i].sign = "LogicSignature" =>
                /\ g[i].lsig.present
                /\ lsigVerify(g[i].lsig, g[i].fromAccount)
                /\ run(g[i].lsig.logic) = NoErr
       /\ \A i \in 1..Len(r.ctx.preFee) :
            (g[i].lsig.present /\ ~lsigVerify(g[i].lsig, g[i].fromAccount)) =>
              /\ ~r.ok
              /\ r.err = "LOGIC_SIGNATURE_VALIDATION_FAILED"
              /\ r.store = store

\* C17 amended: a transaction signed by logic signature is accepted only if
\* the logic signature verifies against fromAccount (signed by fromAccount's
\* key, or unsigned with fromAccount the address of the program) and its
\* program accepts in stateless mode; when the verification fails for a
\* transaction whose fee fromAccount can pay, the group is rejected with
\* LOGIC_SIGNATURE_VALIDATION_FAILED, the program is not run and the store does
\* not change; when fromAccount cannot pay the fee, the group is rejected with
\* INSUFFICIENT_ACCOUNT_BALANCE before the logic signature is verified, and
\* the store does not change.
C17_LsigMustVerify ==
  \A g \in ScenLsigGroups :
    LET r == executeTx(store, g)
        canPay(i) == r.ctx.preFee[i].accounts[g[i].fromAccount].amount - g[i].fee
                       >= r.ctx.preFee[i].accounts[g[i].fromAccount].minBalance
    IN /\ r.ok =>
            \A i \in 1..Len(g) :
              g[i].sign = "LogicSignature" =>
                /\ g[i].lsig.present
                /\ lsigVerify(g[i].lsig, g[i].fromAccount)
                /\ run(g[i].lsig.logic) = NoErr
       /\ \A i \in 1..Len(r.ctx.preFee) :
            (g[i].lsig.present /\ ~lsigVerify(g[i].lsig, g[i].fromAccount)) =>
              /\ ~r.ok
              /\ r.ctx.errIdx = i - 1
              /\ r.err = IF canPay(i) THEN "LOGIC_SIGNATURE_VALIDATION_FAILED"
                         ELSE "INSUFFICIENT_ACCOUNT_BALANCE"
              /\ \A k \in 1..Len(r.ctx.runs) : r.ctx.runs[k].idx # i - 1
              /\ r.store = store

\* a transfer whose logic signature does not verify was rejected for the
\* signature, in a store where another such transfer, of the account that
\* cannot pay the fee, is rejected for the balance
C17_Witness ==
  /\ ~outcome.ok
  /\ outcome.err = "LOGIC_SIGNATURE_VALIDATION_FAILED"
  /\ \E t \in ScenForgedTxns :
       executeTx(store, <<t>>).err = "INSUFFICIENT_ACCOUNT_BALANCE"
  /\ \E t \in ScenForgedTxns :
       t.lsig.signer = Blank
         /\ executeTx(store, <<t>>).err = "LOGIC_SIGNATURE_VALIDATION_FAILED"

\* ------------------------------------------------------------ interpreter
\* stack values: a uint64 or a byte string
U(n) == [t |-> "uint64", v |-> n, b |-> ""]
B(x) == [t |-> "bytes", v |-> 0, b |-> x]

\* instructions: opcode and immediate argument (U(0) where there is none)
Ins(op) == [op |-> op, arg |-> U(0)]
OpInt(n) == [op |-> "int", arg |-> U(n)]
OpByte(x) == [op |-> "byte", arg |-> B(x)]

\* the opcodes that read or write application state
AppStateOps ==
  {"app_opted_in", "app_local_get", "app_local_get_ex", "app_global_get",
   "app_global_get_ex", "app_local_put", "app_global_put", "app_local_del",
   "app_global_del"}

\* key-value maps of local and global state
KvSet(f, k, v) == [x \in DOMAIN f \cup {k} |-> IF x = k THEN v ELSE f[x]]

\* JavaScript truthiness of a value read from state: an absent key and the
\* uint64 0 are falsy, every byte string and every other uint64 is truthy
Truthy(f, k) == k \in DOMAIN f /\ f[k] # U(0)

\* the machine: err, stack (top last), the context state, and halted once
\* instructionIndex was moved to the end
Raise(m, e) == [m EXCEPT !.err = e]
Peek(m, k) == m.stack[Len(m.stack) - k]
Drop(m, n) == [m EXCEPT !.stack = SubSeq(@, 1, Len(@) - n)]
Push(m, v) == [m EXCEPT !.stack = Append(@, v)]

\* ctx.tx when no transaction was put into the context (executeTx of an empty
\* group leaves it undefined): reading a field of it is a TypeError
UndefinedTx == [undefined |-> TRUE]

\* the apid field of a transaction that carries no application id (the
\* object {}, a payment, an application creation): the value undefined, which
\* is the id of no application
UndefinedApid == -1

\* the transaction of a context no call has set yet, the object {}: it has no
\* sender, no Txn.Accounts and no Txn.ForeignApps, so reading an account or a
\* foreign application through it is a TypeError; its application id is
\* undefined
NoTx == [snd |-> Blank, apid |-> UndefinedApid, apat |-> << >>, apfa |-> << >>,
         empty |-> TRUE]

\* ctx.tx.apid ?? 0: the application the opcodes of the current application
\* work on, application 0 when the transaction carries no application id
currentApp(tx) == IF tx.apid = UndefinedApid THEN 0 ELSE tx.apid

\* getAccount taking index 1 for the sender as well and index i + 1 for the
\* i-th entry of Txn.Accounts
getAccount_FromOne(st, tx, accountIndex) ==
  LET a == IF accountIndex <= 1 THEN tx.snd ELSE tx.apat[accountIndex - 1]
  IN IF tx = UndefinedTx \/ tx = NoTx THEN [err |-> "TypeError", addr |-> Blank]
     ELSE IF accountIndex > 1 /\ accountIndex - 1 > Len(tx.apat)
       THEN [err |-> "INDEX_OUT_OF_BOUND", addr |-> Blank]
     ELSE IF ~HasAccount(st, a) THEN [err |-> "ACCOUNT_DOES_NOT_EXIST", addr |-> Blank]
     ELSE [err |-> NoErr, addr |-> a]

\* interpreter.getAccount: index 0 is the sender, index i the i-th entry of
\* Txn.Accounts; the result is an error or the address of an existing account
getAccount(st, tx, accountIndex) ==
  LET a == IF accountIndex = 0 THEN tx.snd ELSE tx.apat[accountIndex]
  IN IF tx = UndefinedTx \/ tx = NoTx THEN [err |-> "TypeError", addr |-> Blank]
     ELSE IF accountIndex # 0 /\ accountIndex > Len(tx.apat)
       THEN [err |-> "INDEX_OUT_OF_BOUND", addr |-> Blank]
     ELSE IF ~HasAccount(st, a) THEN [err |-> "ACCOUNT_DOES_NOT_EXIST", addr |-> Blank]
     ELSE [err |-> NoErr, addr |-> a]

\* account.getLocalState / setLocalState and interpreter.getGlobalState /
\* setGlobalState on the context state
LocalKv(st, addr, appId) ==
  IF appId \in DOMAIN st.accounts[addr].appsLocalState
    THEN st.accounts[addr].appsLocalState[appId].kv ELSE << >>

GlobalKv(st, appId) == AppOf(st, appId).globalState

\* assertValidSchema: the numbers of uint and byte-slice entries of a key-value
\* map against a schema [uint, bytes]
CountOf(kv, t) == Cardinality({k \in DOMAIN kv : kv[k].t = t})

assertValidSchema(kv, schema) ==
  IF CountOf(kv, "uint64") > schema.uint \/ CountOf(kv, "bytes") > schema.bytes
    THEN "INVALID_SCHEMA" ELSE NoErr

\* the schema of an account's local state of an application: the local schema
\* of the application as it was copied into the local state at opt-in
LocalSchemaOf(st, addr, appId) == st.accounts[addr].appsLocalState[appId].schema

setLocalState(st, addr, appId, k, v) ==
  [st EXCEPT !.accounts[addr].appsLocalState[appId].kv = KvSet(@, k, v)]

setGlobalState(st, appId, k, v) ==
  [st EXCEPT !.accounts[st.globalApps[appId]].createdApps[appId].globalState = KvSet(@, k, v)]

\* Pop
Pop(m) ==
  IF Len(m.stack) < 1 THEN Raise(m, "ASSERT_STACK_LENGTH") ELSE Drop(m, 1)

\* Return leaving the whole stack in place
Return_KeepStack(m) ==
  IF Len(m.stack) < 1 THEN Raise(m, "ASSERT_STACK_LENGTH")
  ELSE [m EXCEPT !.halted = TRUE]

\* Return: the last value becomes the only value and execution ends
Return(m) ==
  IF Len(m.stack) < 1 THEN Raise(m, "ASSERT_STACK_LENGTH")
  ELSE [m EXCEPT !.stack = << Peek(m, 0) >>, !.halted = TRUE]

\* AppOptedIn: pops application id and account index
AppOptedIn(m, tx) ==
  IF Len(m.stack) < 2 THEN Raise(m, "ASSERT_STACK_LENGTH")
  ELSE IF Peek(m, 0).t # "uint64" \/ Peek(m, 1).t # "uint64" THEN Raise(m, "INVALID_TYPE")
  ELSE LET acc == getAccount(m.state, tx, Peek(m, 1).v)
       IN IF acc.err # NoErr THEN Raise(m, acc.err)
          ELSE Push(Drop(m, 2),
                    IF Peek(m, 0).v \in DOMAIN m.state.accounts[acc.addr].appsLocalState
                      THEN U(1) ELSE U(0))

\* AppLocalGet: pops key and account index, reads the current application
AppLocalGet(m, tx) ==
  IF Len(m.stack) < 2 THEN Raise(m, "ASSERT_STACK_LENGTH")
  ELSE IF Peek(m, 0).t # "bytes" \/ Peek(m, 1).t # "uint64" THEN Raise(m, "INVALID_TYPE")
  ELSE LET acc == getAccount(m.state, tx, Peek(m, 1).v)
           kv  == LocalKv(m.state, acc.addr, currentApp(tx))
           k   == Peek(m, 0).b
       IN IF acc.err # NoErr THEN Raise(m, acc.err)
          ELSE Push(Drop(m, 2), IF Truthy(kv, k) THEN kv[k] ELSE U(0))

\* AppLocalGetEx leaving the flag below the value
AppLocalGetEx_FlagBelow(m, tx) ==
  IF Len(m.stack) < 3 THEN Raise(m, "ASSERT_STACK_LENGTH")
  ELSE IF Peek(m, 0).t # "bytes" \/ Peek(m, 1).t # "uint64" \/ Peek(m, 2).t # "uint64"
    THEN Raise(m, "INVALID_TYPE")
  ELSE LET acc == getAccount(m.state, tx, Peek(m, 2).v)
           kv  == LocalKv(m.state, acc.addr, Peek(m, 1).v)
           k   == Peek(m, 0).b
       IN IF acc.err # NoErr THEN Raise(m, acc.err)
          ELSE IF Truthy(kv, k) THEN Push(Push(Drop(m, 3), U(1)), kv[k])
          ELSE Push(Push(Drop(m, 3), U(0)), U(0))

\* AppLocalGetEx: pops key, application id and account index
AppLocalGetEx(m, tx) ==
  IF Len(m.stack) < 3 THEN Raise(m, "ASSERT_STACK_LENGTH")
  ELSE IF Peek(m, 0).t # "bytes" \/ Peek(m, 1).t # "uint64" \/ Peek(m, 2).t # "uint64"
    THEN Raise(m, "INVALID_TYPE")
  ELSE LET acc == getAccount(m.state, tx, Peek(m, 2).v)
           kv  == LocalKv(m.state, acc.addr, Peek(m, 1).v)
           k   == Peek(m, 0).b
       IN IF acc.err # NoErr THEN Raise(m, acc.err)
          ELSE IF Truthy(kv, k) THEN Push(Push(Drop(m, 3), kv[k]), U(1))
          ELSE Push(Push(Drop(m, 3), U(0)), U(0))

\* AppGlobalGet: pops the key, reads the current application
AppGlobalGet(m, tx) ==
  IF Len(m.stack) < 1 THEN Raise(m, "ASSERT_STACK_LENGTH")
  ELSE IF Peek(m, 0).t # "bytes" THEN Raise(m, "INVALID_TYPE")
  ELSE IF tx = UndefinedTx THEN Raise(m, "TypeError")
  ELSE IF getApp(m.state, currentApp(tx)) # NoErr THEN Raise(m, getApp(m.state, currentApp(tx)))
  ELSE LET kv == GlobalKv(m.state, currentApp(tx))
           k  == Peek(m, 0).b
       IN Push(Drop(m, 1), IF Truthy(kv, k) THEN kv[k] ELSE U(0))

\* AppGlobalGetEx: pops key and foreign application index; index 0 reads
\* ctx.tx.apid as it is, so a transaction without application id names no
\* application and getApp fails
AppGlobalGetEx(m, tx) ==
  IF Len(m.stack) < 2 THEN Raise(m, "ASSERT_STACK_LENGTH")
  ELSE IF Peek(m, 0).t # "bytes" \/ Peek(m, 1).t # "uint64" THEN Raise(m, "INVALID_TYPE")
  ELSE IF tx = UndefinedTx THEN Raise(m, "TypeError")
  ELSE IF Peek(m, 1).v # 0 /\ tx = NoTx THEN Raise(m, "TypeError")
  ELSE IF Peek(m, 1).v # 0 /\ Peek(m, 1).v > Len(tx.apfa) THEN Raise(m, "INDEX_OUT_OF_BOUND")
  ELSE LET appId == IF Peek(m, 1).v = 0 THEN tx.apid ELSE tx.apfa[Peek(m, 1).v]
           k     == Peek(m, 0).b
       IN IF getApp(m.state, appId) # NoErr THEN Raise(m, getApp(m.state, appId))
          ELSE IF Truthy(GlobalKv(m.state, appId), k)
            THEN Push(Push(Drop(m, 2), GlobalKv(m.state, appId)[k]), U(1))
          ELSE Push(Push(Drop(m, 2), U(0)), U(0))

\* AppLocalPut: pops value, key and account index, writes the local state of
\* the current application
AppLocalPut(m, tx) ==
  IF Len(m.stack) < 3 THEN Raise(m, "ASSERT_STACK_LENGTH")
  ELSE IF Peek(m, 1).t # "bytes" \/ Peek(m, 2).t # "uint64" THEN Raise(m, "INVALID_TYPE")
  ELSE LET acc == getAccount(m.state, tx, Peek(m, 2).v)
       IN IF acc.err # NoErr THEN Raise(m, acc.err)
          ELSE IF currentApp(tx) \notin DOMAIN m.state.accounts[acc.addr].appsLocalState
            THEN Raise(m, "APP_NOT_FOUND")
          ELSE LET st2 == setLocalState(m.state, acc.addr, currentApp(tx), Peek(m, 1).b, Peek(m, 0))
                   e   == assertValidSchema(LocalKv(st2, acc.addr, currentApp(tx)),
                                            LocalSchemaOf(st2, acc.addr, currentApp(tx)))
               IN IF e # NoErr THEN [Raise(m, e) EXCEPT !.state = st2]
                  ELSE [Drop(m, 3) EXCEPT !.state = st2]

\* AppLocalPut and AppGlobalPut without the schema assertion
AppLocalPut_NoSchema(m, tx) ==
  IF Len(m.stack) < 3 THEN Raise(m, "ASSERT_STACK_LENGTH")
  ELSE IF Peek(m, 1).t # "bytes" \/ Peek(m, 2).t # "uint64" THEN Raise(m, "INVALID_TYPE")
  ELSE LET acc == getAccount(m.state, tx, Peek(m, 2).v)
       IN IF acc.err # NoErr THEN Raise(m, acc.err)
          ELSE IF currentApp(tx) \notin DOMAIN m.state.accounts[acc.addr].appsLocalState
            THEN Raise(m, "APP_NOT_FOUND")
          ELSE [Drop(m, 3) EXCEPT
                  !.state = setLocalState(m.state, acc.addr, currentApp(tx), Peek(m, 1).b, Peek(m, 0))]

AppGlobalPut_NoSchema(m, tx) ==
  IF Len(m.stack) < 2 THEN Raise(m, "ASSERT_STACK_LENGTH")
  ELSE IF Peek(m, 1).t # "bytes" THEN Raise(m, "INVALID_TYPE")
  ELSE IF tx = UndefinedTx THEN Raise(m, "TypeError")
  ELSE IF getApp(m.state, currentApp(tx)) # NoErr THEN Raise(m, getApp(m.state, currentApp(tx)))
  ELSE [Drop(m, 2) EXCEPT
          !.state = setGlobalState(m.state, currentApp(tx), Peek(m, 1).b, Peek(m, 0))]

\* AppGlobalPut: pops value and key, writes the global state of the current
\* application
AppGlobalPut(m, tx) ==
  IF Len(m.stack) < 2 THEN Raise(m, "ASSERT_STACK_LENGTH")
  ELSE IF Peek(m, 1).t # "bytes" THEN Raise(m, "INVALID_TYPE")
  ELSE IF tx = UndefinedTx THEN Raise(m, "TypeError")
  ELSE IF getApp(m.state, currentApp(tx)) # NoErr THEN Raise(m, getApp(m.state, currentApp(tx)))
  ELSE LET st2 == setGlobalState(m.state, currentApp(tx), Peek(m, 1).b, Peek(m, 0))
           e   == assertValidSchema(GlobalKv(st2, currentApp(tx)), AppOf(st2, currentApp(tx)).globalSchema)
       IN IF e # NoErr THEN [Raise(m, e) EXCEPT !.state = st2]
          ELSE [Drop(m, 2) EXCEPT !.state = st2]

\* AppLocalDel: pops key and account index; the stack is asserted to hold one
\* value only, so with a single value on it the second pop finds the stack empty
\* and the stack itself throws
AppLocalDel(m, tx) ==
  IF Len(m.stack) < 1 THEN Raise(m, "ASSERT_STACK_LENGTH")
  ELSE IF Peek(m, 0).t # "bytes" THEN Raise(m, "INVALID_TYPE")
  ELSE IF Len(m.stack) < 2 THEN Raise(m, "pop from empty stack")
  ELSE IF Peek(m, 1).t # "uint64" THEN Raise(m, "INVALID_TYPE")
  ELSE LET acc == getAccount(m.state, tx, Peek(m, 1).v)
       IN IF acc.err # NoErr THEN Raise(m, acc.err)
          ELSE IF currentApp(tx) \notin DOMAIN m.state.accounts[acc.addr].appsLocalState
            THEN Drop(m, 2)
          ELSE [Drop(m, 2) EXCEPT
                  !.state.accounts[acc.addr].appsLocalState[currentApp(tx)].kv =
                     MapDelete(@, Peek(m, 0).b)]

\* AppGlobalDel: pops the key, deletes it from the current application; getApp
\* throws for an application that cannot be looked up
AppGlobalDel(m, tx) ==
  IF Len(m.stack) < 1 THEN Raise(m, "ASSERT_STACK_LENGTH")
  ELSE IF Peek(m, 0).t # "bytes" THEN Raise(m, "INVALID_TYPE")
  ELSE IF tx = UndefinedTx THEN Raise(m, "TypeError")
  ELSE IF getApp(m.state, currentApp(tx)) # NoErr THEN Raise(m, getApp(m.state, currentApp(tx)))
  ELSE [Drop(m, 1) EXCEPT
          !.state.accounts[m.state.globalApps[currentApp(tx)]].createdApps[currentApp(tx)].globalState =
             MapDelete(@, Peek(m, 0).b)]

\* Op.execute of one instruction
executeOp(m, ins, tx) ==
  CASE ins.op = "int"    -> Push(m, ins.arg)
    [] ins.op = "byte"   -> Push(m, ins.arg)
    [] ins.op = "pop"    -> Pop(m)
    [] ins.op = "err"    -> Raise(m, "TEAL_ENCOUNTERED_ERR")
    [] ins.op = "return" -> Return(m)
    [] ins.op = "app_opted_in"      -> AppOptedIn(m, tx)
    [] ins.op = "app_local_get"     -> AppLocalGet(m, tx)
    [] ins.op = "app_local_get_ex"  -> AppLocalGetEx(m, tx)
    [] ins.op = "app_global_get"    -> AppGlobalGet(m, tx)
    [] ins.op = "app_global_get_ex" -> AppGlobalGetEx(m, tx)
    [] ins.op = "app_local_put"     -> AppLocalPut(m, tx)
    [] ins.op = "app_global_put"    -> AppGlobalPut(m, tx)
    [] ins.op = "app_local_del"     -> AppLocalDel(m, tx)
    [] ins.op = "app_global_del"    -> AppGlobalDel(m, tx)
    [] OTHER -> Raise(m, "INVALID_OP_ARG")

\* one step of the interpreter letting every opcode execute in every mode
step_AnyMode(m, ins, mode, tx) == executeOp(m, ins, tx)

\* one step of the interpreter: an application-state opcode is refused in
\* stateless mode, every other instruction executes
step(m, ins, mode, tx) ==
  IF mode = "STATELESS" /\ ins.op \in AppStateOps
    THEN Raise(m, "EXECUTION_MODE_NOT_VALID")
  ELSE executeOp(m, ins, tx)

\* the instruction loop of Interpreter.execute from instruction pc (from 1)
RECURSIVE runFrom(_, _, _, _, _)
runFrom(m, program, pc, mode, tx) ==
  IF pc > Len(program) \/ m.err # NoErr \/ m.halted THEN m
  ELSE runFrom(step(m, program[pc], mode, tx), program, pc + 1, mode, tx)

\* the machine when the instruction loop of program ends on context state st
runOps(program, mode, st, tx) ==
  runFrom([err |-> NoErr, stack |-> << >>, state |-> st, halted |-> FALSE],
          program, 1, mode, tx)


\* the verdict of Interpreter.execute on the machine the loop ended in
verdict(m) ==
  IF m.err # NoErr THEN m.err
  ELSE IF Len(m.stack) = 1 /\ m.stack[1].t = "uint64" /\ m.stack[1].v > 0 THEN NoErr
  ELSE "REJECTED_BY_LOGIC"

\* what Interpreter.execute leaves when the loop ended in machine m
executed(m) ==
  [ok |-> verdict(m) = NoErr, err |-> verdict(m), stack |-> m.stack, state |-> m.state]

\* Interpreter.execute(program, mode, runtime)
execute(program, mode, st, tx) == executed(runOps(program, mode, st, tx))

\* ------------------------------------------------------ interpreter inputs
\* the transaction the programs run for: A calls application 1 and names B in
\* Txn.Accounts and application 2 in Txn.ForeignApps
TealTx == [snd |-> "A", apid |-> AppId1, apat |-> << "B" >>, apfa |-> << AppId2 >>]

TealValues == {U(0), U(1), B("x")}

\* the schema of the applications: one uint and one byte slice
TealSchema == [uint |-> 1, bytes |-> 1]

\* the world of the interpreter runs: A created the applications 1 and 2 with
\* the given global state of application 1; A and B have opted in to
\* application 1 with the given local state
TealStore(g, la, lb) ==
  [accounts |->
     [a \in {"A", "B"} |->
        [NewAccount EXCEPT
           !.appsLocalState = (AppId1 :> [kv |-> IF a = "A" THEN la ELSE lb,
                                          schema |-> TealSchema]),
           !.createdApps =
              IF a = "A"
                THEN (AppId1 :> [approval |-> "int 1", clear |-> "int 1", globalState |-> g,
                                 globalSchema |-> TealSchema, localSchema |-> TealSchema])
                     @@ (AppId2 :> [approval |-> "int 1", clear |-> "int 1",
                                    globalState |-> ("k" :> U(1)),
                                    globalSchema |-> TealSchema, localSchema |-> TealSchema])
                ELSE << >>]],
   globalApps |-> (AppId1 :> "A") @@ (AppId2 :> "A"),
   assetDefs  |-> << >>]

\* the state with every local and global key-value pair removed
EraseAppState(st) ==
  [st EXCEPT
     !.accounts = [a \in DOMAIN st.accounts |->
        [st.accounts[a] EXCEPT
           !.appsLocalState = [i \in DOMAIN @ |-> [@[i] EXCEPT !.kv = << >>]],
           !.createdApps = [i \in DOMAIN @ |-> [@[i] EXCEPT !.globalState = << >>]]]]]

\* programs without application-state opcodes: every sequence of up to three
\* of these instructions
SimpleIns == {OpInt(0), OpInt(1), OpByte("k"), Ins("pop"), Ins("return"), Ins("err")}

SimplePrograms ==
  {<< >>} \cup {<<a>> : a \in SimpleIns} \cup {<<a, b>> : a \in SimpleIns, b \in SimpleIns}
  \cup {<<a, b, c>> : a \in SimpleIns, b \in SimpleIns, c \in SimpleIns}

\* an application-state opcode on well-typed arguments
AppCalls ==
  {<<OpInt(i), OpInt(a), Ins("app_opted_in")>> : i \in {0, 1}, a \in {AppId1, AppId2}}
  \cup {<<OpInt(i), OpByte("k"), Ins("app_local_get")>> : i \in {0, 1}}
  \cup {<<OpInt(i), OpInt(a), OpByte("k"), Ins("app_local_get_ex")>> :
          i \in {0, 1}, a \in {AppId1, AppId2}}
  \cup {<<OpByte("k"), Ins("app_global_get")>>}
  \cup {<<OpInt(i), OpByte("k"), Ins("app_global_get_ex")>> : i \in {0, 1}}
  \cup {<<OpInt(i), OpByte(k), [op |-> IF v.t = "bytes" THEN "byte" ELSE "int", arg |-> v],
          Ins("app_local_put")>> : i \in {0, 1}, k \in {"k", "j"}, v \in TealValues}
  \cup {<<OpByte(k), [op |-> IF v.t = "bytes" THEN "byte" ELSE "int", arg |-> v],
          Ins("app_global_put")>> : k \in {"k", "j"}, v \in TealValues}
  \cup {<<OpInt(i), OpByte("k"), Ins("app_local_del")>> : i \in {0, 1}}
  \cup {<<OpByte("k"), Ins("app_global_del")>>}

\* what follows the opcode
Tails ==
  {<< >>, <<OpInt(1)>>, <<Ins("pop")>>, <<Ins("pop"), OpInt(1)>>, <<OpInt(1), Ins("return")>>}

TealPrograms == SimplePrograms \cup {c \o t : c \in AppCalls, t \in Tails}

Modes == {"STATELESS", "STATEFUL"}

\* the application state is empty or holds one value under the key k
KvSet1 == {<< >>} \cup {("k" :> v) : v \in TealValues}

\* the programs that are run one after the other
TealStepPrograms ==
  {<<OpByte("k"), OpInt(1), Ins("app_global_put"), OpInt(1)>>,
   <<OpByte("k"), OpByte("x"), Ins("app_global_put"), OpInt(1)>>,
   <<OpByte("j"), OpInt(1), Ins("app_global_put"), OpInt(1)>>,
   <<OpInt(0), OpByte("j"), OpByte("x"), Ins("app_local_put"), OpInt(1)>>,
   <<OpByte("k"), Ins("app_global_del"), OpInt(1)>>,
   <<OpInt(0), OpByte("k"), OpInt(0), Ins("app_local_put"), OpInt(1)>>,
   <<OpInt(1), OpByte("k"), Ins("app_local_del"), OpInt(1)>>,
   <<OpInt(2), OpByte("k"), Ins("app_local_del"), OpInt(1)>>,
   <<OpByte("k"), Ins("app_global_get")>>,
   <<OpInt(0), OpInt(AppId1), OpByte("k"), Ins("app_local_get_ex")>>,
   <<OpInt(0), OpByte("k"), Ins("app_global_get_ex")>>,
   << >>, <<OpInt(1)>>, <<OpInt(0)>>, <<OpByte("k")>>, <<OpInt(1), OpInt(1)>>,
   <<OpInt(0), OpInt(1), Ins("return")>>, <<Ins("err")>>}

InitTeal ==
  /\ \E g \in KvSet1, la \in KvSet1, lb \in {<< >>, ("k" :> B("x"))} :
       store = TealStore(g, la, lb)
  /\ outcome = [ok |-> TRUE, err |-> NoErr, mode |-> "STATEFUL", stack |-> << >>]

\* runtime.run(program, STATELESS) for a logic signature: the context is not
\* written
RunStateless(program) ==
  LET r == execute(program, "STATELESS", store, TealTx)
  IN /\ store' = store
     /\ outcome' = [ok |-> r.ok, err |-> r.err, mode |-> "STATELESS", stack |-> r.stack]

\* runtime.run(program, STATEFUL) for a call of application 1: the context the
\* program wrote becomes the store when the program accepts
RunStateful(program) ==
  LET r == execute(program, "STATEFUL", store, TealTx)
  IN /\ store' = IF r.ok THEN r.state ELSE store
     /\ outcome' = [ok |-> r.ok, err |-> r.err, mode |-> "STATEFUL", stack |-> r.stack]

NextTeal ==
  \/ \E program \in TealStepPrograms : RunStateless(program)
  \/ \E program \in TealStepPrograms : RunStateful(program)

SpecTeal == InitTeal /\ [][NextTeal]_vars

\* C18: a program executed in stateless mode that reaches an application-state
\* opcode is rejected, and no stateless execution modifies application state or
\* depends on it.
C18_StatelessNoAppState ==
  \A program \in TealPrograms :
    LET r == execute(program, "STATELESS", store, TealTx)
        e == execute(program, "STATELESS", EraseAppState(store), TealTx)
        reaches(i) ==
          LET m == runOps(SubSeq(program, 1, i - 1), "STATELESS", store, TealTx)
          IN program[i].op \in AppStateOps /\ m.err = NoErr /\ ~m.halted
    IN /\ (\E i \in 1..Len(program) : reaches(i)) => ~r.ok
       /\ r.state = store
       /\ r.ok = e.ok /\ r.err = e.err /\ r.stack = e.stack

\* a stateless run was rejected for an application-state opcode while the
\* applications hold state
C18_Witness ==
  /\ outcome.mode = "STATELESS"
  /\ ~outcome.ok
  /\ outcome.err = "EXECUTION_MODE_NOT_VALID"
  /\ GlobalKv(store, AppId1) # << >>
  /\ LocalKv(store, "A", AppId1) # << >>

\* C19: a program run is accepted if and only if it terminates without a fatal
\* error with exactly one value on the stack and that value is a non-zero
\* uint64; an empty stack, more than one value, Uint64(0) or a byte string on
\* top reject; after return only the last value counts.
C19_AcceptanceRule ==
  \A program \in TealPrograms, mode \in Modes :
    LET m == runOps(program, mode, store, TealTx)
        r == execute(program, mode, store, TealTx)
        last == program[Len(program)]
    IN /\ r.ok <=> /\ m.err = NoErr
                   /\ Len(m.stack) = 1
                   /\ m.stack[1].t = "uint64"
                   /\ m.stack[1].v # 0
       /\ (m.err = NoErr /\ Len(m.stack) = 0) => r.err = "REJECTED_BY_LOGIC"
       /\ (m.err = NoErr /\ Len(m.stack) > 1) => r.err = "REJECTED_BY_LOGIC"
       /\ (m.err = NoErr /\ Len(m.stack) >= 1 /\ Peek(m, 0) = U(0)) => r.err = "REJECTED_BY_LOGIC"
       /\ (m.err = NoErr /\ Len(m.stack) >= 1 /\ Peek(m, 0).t = "bytes")
            => r.err = "REJECTED_BY_LOGIC"
       /\ (m.err = NoErr /\ ~m.halted) =>
            \A v \in TealValues :
              execute(program \o <<[op |-> IF v.t = "bytes" THEN "byte" ELSE "int", arg |-> v],
                                   Ins("return")>>, mode, store, TealTx).ok
                <=> (v.t = "uint64" /\ v.v # 0)

\* a stateful run ended without a fatal error with more than one value on the
\* stack and was rejected
C19_Witness ==
  /\ outcome.mode = "STATEFUL"
  /\ ~outcome.ok
  /\ outcome.err = "REJECTED_BY_LOGIC"
  /\ Len(outcome.stack) > 1

\* the groups with a transaction that has a program attached
RunGroups ==
  {g \in Groups :
     \E i \in 1..Len(g) : g[i].type \in SSCTypes \/ g[i].sign = "LogicSignature"}

\* C20: within a group each transaction is processed in declared order as:
\* deduct its fee, run its attached logic, apply its mutation; the program
\* attached to the second transaction therefore reads the state that the first
\* transaction alone produces, less the fee of the second.
C20_ProgramSeesEarlierEffects ==
  \A g \in RunGroups :
    LET r    == executeTx(store, g)
        runs == r.ctx.runs
        lessFee(st, p) == [st EXCEPT !.accounts[p.fromAccount].amount = @ - p.fee]
    IN \A k \in 1..Len(runs) :
         LET i == runs[k].idx + 1
         IN /\ k > 1 => runs[k - 1].idx <= runs[k].idx
            /\ runs[k].state = lessFee(r.ctx.preFee[i], g[i])
            /\ i <= Len(r.ctx.pre) => runs[k].state = r.ctx.pre[i]
            /\ (r.ok /\ ~r.ctx.clearErrorBool) =>
                  PostOf(r, g, i) = dispatch(runs[k].state, g[i]).state
            /\ i = 1 => runs[k].state = lessFee(store, g[1])
            /\ i = 2 => /\ executeTx(store, <<g[1]>>).ok
                        /\ executeTx(store, <<g[1]>>).store # store
                        /\ runs[k].state = lessFee(executeTx(store, <<g[1]>>).store, g[2])

\* a group of two transactions was accepted whose second transaction ran the
\* clear program of application 1 after the transfer before it
C20_Witness ==
  /\ outcome.ok
  /\ outcome.n = 2
  /\ outcome.clear
  /\ AppId1 \notin DOMAIN store.accounts["B"].appsLocalState

\* C25: the numbers of uint and byte-slice entries in each application's global
\* state do not exceed its global schema, and those in each opted-in account's
\* local state do not exceed the application's local schema; an app_global_put
\* or app_local_put that would exceed either count fails.
C25_StateWithinSchema ==
  /\ \A i \in DOMAIN store.globalApps :
       assertValidSchema(GlobalKv(store, i), AppOf(store, i).globalSchema) = NoErr
  /\ \A a \in DOMAIN store.accounts : \A i \in DOMAIN store.accounts[a].appsLocalState :
       assertValidSchema(LocalKv(store, a, i), LocalSchemaOf(store, a, i)) = NoErr
  /\ \A c \in AppCalls, t \in Tails :
       LET n   == Len(c)
           op  == c[n].op
           key == c[n - 2].arg.b
           val == c[n - 1].arg
           who == IF c[1].arg.v = 0 THEN TealTx.snd ELSE TealTx.apat[1]
           kv  == IF op = "app_global_put" THEN GlobalKv(store, TealTx.apid)
                  ELSE LocalKv(store, who, TealTx.apid)
           new == Cardinality({k \in (DOMAIN kv) \ {key} : kv[k].t = val.t}) + 1
           max == IF val.t = "uint64" THEN TealSchema.uint ELSE TealSchema.bytes
           r   == execute(c \o t, "STATEFUL", store, TealTx)
       IN (op \in {"app_global_put", "app_local_put"} /\ new > max) =>
            (~r.ok /\ r.err = "INVALID_SCHEMA")

\* a put that would have given the global state a second uint was refused
\* while the global state holds one uint and one byte slice
C25_Witness ==
  /\ ~outcome.ok
  /\ outcome.err = "INVALID_SCHEMA"
  /\ CountOf(GlobalKv(store, AppId1), "uint64") = 1
  /\ CountOf(GlobalKv(store, AppId1), "bytes") = 1

\* ------------------------------------------ Runtime (application lifecycle)
\* The Runtime object of the application lifecycle calls: the store, the
\* context state, the application counter and the program map.  ctx.state is
\* either the store itself (whole, after updateFinalState assigned it), or a
\* deep copy of it in which the accounts of `shared` are the store's own
\* account objects (after addApp put the sender's account into the context).
MaxCreatedApps == 10
MaxOptedInApps == 10

RtAddr == {"A", "B"}

EmptyState ==
  [accounts |-> [a \in RtAddr |-> NewAccount], globalApps |-> << >>, assetDefs |-> << >>]

\* the transaction the lifecycle calls put into the context; the encoded
\* transaction of a creation (application id 0) has no apid field
AppTx(sender, appId) ==
  [snd |-> sender, apid |-> IF appId = 0 THEN UndefinedApid ELSE appId,
   apat |-> << >>, apfa |-> << >>]

\* constructor: ctx.state is a deep copy of the store, ctx.tx the empty object,
\* the counter is 0
NewRuntime ==
  [store |-> EmptyState, ctx |-> cloneDeep(EmptyState), shared |-> {}, whole |-> FALSE,
   appCounter |-> 0, programMap |-> << >>, tx |-> NoTx]

\* a mutation made through the context state, seen through the aliases
SetCtx(R, st) ==
  [R EXCEPT
     !.ctx = st,
     !.store = IF R.whole THEN st
               ELSE [@ EXCEPT !.accounts =
                       [a \in DOMAIN @ |-> IF a \in R.shared THEN st.accounts[a] ELSE @[a]]]]

\* a mutation made through the store, seen through the aliases
SetStore(R, st) ==
  [R EXCEPT
     !.store = st,
     !.ctx = IF R.whole THEN st
             ELSE [@ EXCEPT !.accounts =
                     [a \in DOMAIN @ |-> IF a \in R.shared THEN st.accounts[a] ELSE @[a]]]]

RtOk(R)      == [err |-> NoErr, R |-> R, id |-> 0]
RtFail(e, R) == [err |-> e, R |-> R, id |-> 0]

\* makeAndSetCtxAppCreateTxn, createOptInTx, createUpdateTx: the transaction of
\* the call becomes ctx.tx
setCtxTx(R, tx) == [R EXCEPT !.tx = tx]

\* Runtime.run in stateful mode: the interpreter writes ctx.state in place, so
\* what it wrote before failing stays in the context
rtRan(R, r) == [err |-> r.err, R |-> SetCtx(R, r.state), id |-> 0]

\* Runtime.run(program, mode): the program runs on ctx.state for ctx.tx
rtRunMode(R, program, mode) == rtRan(R, execute(program, mode, R.ctx, R.tx))

\* a lifecycle call's transaction put into the context, then Runtime.run
rtRun(R, program, tx) == rtRunMode(setCtxTx(R, tx), program, "STATEFUL")

\* Runtime.getProgram
getProgram(R, appId) ==
  IF appId \in DOMAIN R.programMap THEN NoErr ELSE "APP_NOT_FOUND"

\* StoreAccount.addApp of the account the Runtime works on, whose createdApps
\* is a map from identifier to attributes: a new application with no programs,
\* an empty global state and the schemas of the flags, set under its identifier
AccountAddApp(acc, appId, flags) ==
  IF Cardinality(DOMAIN acc.createdApps) = MaxCreatedApps
    THEN [err |-> "Maximum created applications for an account is 10", acc |-> acc]
  ELSE [err |-> NoErr,
        acc |-> [acc EXCEPT !.createdApps =
                   (appId :> [approval |-> "", clear |-> "", globalState |-> << >>,
                              globalSchema |-> flags.globalSchema,
                              localSchema |-> flags.localSchema])
                   @@ MapDelete(@, appId)]]

\* StoreAccount.optInToApp: an empty local state with the local schema of the
\* application parameters, unless already opted in
AccountOptInToApp(acc, appId, appParams) ==
  IF appId \in DOMAIN acc.appsLocalState THEN [err |-> NoErr, acc |-> acc]
  ELSE IF Cardinality(DOMAIN acc.appsLocalState) = MaxOptedInApps
    THEN [err |-> "Maximum Opt In applications per account is 10", acc |-> acc]
  ELSE [err |-> NoErr,
        acc |-> [acc EXCEPT !.appsLocalState =
                   (appId :> [kv |-> << >>, schema |-> appParams.localSchema]) @@ @]]

\* Runtime.addApp right after the approval program accepted: the incremented
\* counter enters the store's globalApps under the sender
addAppCounted(R, sender) ==
  [SetStore(R, [R.store EXCEPT !.globalApps = ((R.appCounter + 1) :> sender) @@ @])
     EXCEPT !.appCounter = R.appCounter + 1]

\* the rest of Runtime.addApp, R being the Runtime with the counter incremented
\* and the placeholder application 0 still in the sender's account
addAppFinish(R, sender) ==
  LET R2 == SetCtx(R, [R.ctx EXCEPT !.globalApps = MapDelete(@, 0)])
      at == R2.store.accounts[sender].createdApps[0]
  IN SetStore(R2, [R2.store EXCEPT !.accounts[sender].createdApps =
                     (R.appCounter :> at) @@ MapDelete(@, 0)])

\* the part of Runtime.addApp before the approval program runs: the placeholder
\* application 0 in the sender's account, in the store and in the context
addAppStart(R, sender, acc) ==
  LET R1 == SetStore(R, [R.store EXCEPT !.accounts[sender] = acc])
      R2 == [R1 EXCEPT !.ctx.accounts = (sender :> acc) @@ @,
                       !.shared = @ \cup {sender}]
  IN SetCtx(R2, [R2.ctx EXCEPT !.globalApps = (0 :> sender) @@ MapDelete(@, 0)])

\* the programs of the new application recorded under its identifier
addAppPrograms(R, approvalProgram, clearProgram) ==
  [err |-> NoErr,
   R |-> [R EXCEPT !.programMap = (R.appCounter :> <<approvalProgram, clearProgram>>) @@ @],
   id |-> R.appCounter]

\* the part of Runtime.addApp after the approval program ran with result r:
\* the counter is incremented before the placeholder is asserted to be defined
addAppRan(r, sender, approvalProgram, clearProgram) ==
  IF r.err # NoErr THEN RtFail(r.err, r.R)
  ELSE IF 0 \notin DOMAIN r.R.store.accounts[sender].createdApps
    THEN RtFail("APP_NOT_FOUND", addAppCounted(r.R, sender))
  ELSE addAppPrograms(addAppFinish(addAppCounted(r.R, sender), sender),
                      approvalProgram, clearProgram)

\* the part of Runtime.addApp after the account took the application: a is the
\* result of StoreAccount.addApp
addAppAdded(R, a, sender, approvalProgram, clearProgram) ==
  IF a.err # NoErr THEN RtFail(a.err, R)
  ELSE addAppRan(rtRun(addAppStart(R, sender, a.acc), approvalProgram, AppTx(sender, 0)),
                 sender, approvalProgram, clearProgram)

\* Runtime.addApp
addApp(R, flags, approvalProgram, clearProgram) ==
  IF ~HasAccount(R.store, flags.sender) THEN RtFail("ACCOUNT_DOES_NOT_EXIST", R)
  ELSE addAppAdded(R, AccountAddApp(R.store.accounts[flags.sender], 0, flags),
                   flags.sender, approvalProgram, clearProgram)

\* the part of Runtime.optInToApp after the account opted in with result a
optInAdded(R, a, accountAddr) ==
  IF a.err # NoErr THEN RtFail(a.err, R)
  ELSE RtOk(SetStore(R, [R.store EXCEPT !.accounts[accountAddr] = a.acc]))

\* the part of Runtime.optInToApp after the approval program ran with result r;
\* appParams is the application read from the store before the run
optInRan(r, accountAddr, appId, appParams) ==
  IF r.err # NoErr THEN RtFail(r.err, r.R)
  ELSE optInAdded(r.R, AccountOptInToApp(r.R.store.accounts[accountAddr], appId, appParams),
                  accountAddr)

\* Runtime.optInToApp
rtOptInToApp(R, accountAddr, appId) ==
  IF getApp(R.store, appId) # NoErr THEN RtFail(getApp(R.store, appId), R)
  ELSE IF ~HasAccount(R.store, accountAddr) THEN RtFail("ACCOUNT_DOES_NOT_EXIST", R)
  ELSE IF getProgram(R, appId) # NoErr
    THEN RtFail(getProgram(R, appId), setCtxTx(R, AppTx(accountAddr, appId)))
  ELSE optInRan(rtRun(R, R.programMap[appId][1], AppTx(accountAddr, appId)),
                accountAddr, appId, AppOf(R.store, appId))

\* the part of Runtime.updateApp after the approval program ran with result r
updateRan(r, appId, approvalProgram, clearProgram) ==
  IF r.err # NoErr THEN RtFail(r.err, r.R)
  ELSE RtOk([r.R EXCEPT !.programMap[appId] = <<approvalProgram, clearProgram>>])

\* Runtime.updateApp
updateApp(R, senderAddr, appId, approvalProgram, clearProgram) ==
  IF getApp(R.store, appId) # NoErr THEN RtFail(getApp(R.store, appId), R)
  ELSE IF getProgram(R, appId) # NoErr
    THEN RtFail(getProgram(R, appId), setCtxTx(R, AppTx(senderAddr, appId)))
  ELSE updateRan(rtRun(R, R.programMap[appId][1], AppTx(senderAddr, appId)),
                 appId, approvalProgram, clearProgram)

\* deleteApp giving the identifier of the deleted application back
rtDeleteApp_ReuseId(R, appId) ==
  IF appId \notin DOMAIN R.store.globalApps THEN RtFail("APP_NOT_FOUND", R)
  ELSE IF ~HasAccount(R.store, R.store.globalApps[appId])
    THEN RtFail("ACCOUNT_DOES_NOT_EXIST", R)
  ELSE LET creator == R.store.globalApps[appId]
           a  == AccountDeleteApp(R.store.accounts[creator], appId)
       IN IF a.err # NoErr THEN RtFail(a.err, R)
          ELSE LET R1 == SetStore(R, [R.store EXCEPT !.accounts[creator] = a.acc])
                   R2 == SetStore(R1, [R1.store EXCEPT !.globalApps = MapDelete(@, appId)])
               IN RtOk([R2 EXCEPT !.programMap = MapDelete(@, appId),
                                  !.appCounter = IF appId = @ THEN @ - 1 ELSE @])

\* Runtime.deleteApp
rtDeleteApp(R, appId) ==
  IF appId \notin DOMAIN R.store.globalApps THEN RtFail("APP_NOT_FOUND", R)
  ELSE IF ~HasAccount(R.store, R.store.globalApps[appId])
    THEN RtFail("ACCOUNT_DOES_NOT_EXIST", R)
  ELSE LET creator == R.store.globalApps[appId]
           a  == AccountDeleteApp(R.store.accounts[creator], appId)
       IN IF a.err # NoErr THEN RtFail(a.err, R)
          ELSE LET R1 == SetStore(R, [R.store EXCEPT !.accounts[creator] = a.acc])
                   R2 == SetStore(R1, [R1.store EXCEPT !.globalApps = MapDelete(@, appId)])
               IN RtOk([R2 EXCEPT !.programMap = MapDelete(@, appId)])

\* the Runtime that also hands out asset identifiers: a second counter, 0 after
\* construction
NewRuntimeWithAssets ==
  [store |-> NewRuntime.store, ctx |-> NewRuntime.ctx, shared |-> NewRuntime.shared,
   whole |-> NewRuntime.whole, appCounter |-> NewRuntime.appCounter,
   assetCounter |-> 0, programMap |-> NewRuntime.programMap, tx |-> NewRuntime.tx]

\* Runtime.createAsset: the asset is recorded under the next value of the asset
\* counter in the creator's created assets and in assetDefs; the creator holds
\* nothing of it before opting in
createAsset(R, creator) ==
  IF ~HasAccount(R.store, creator) THEN RtFail("ACCOUNT_DOES_NOT_EXIST", R)
  ELSE LET a == AccountAddAsset(R.store.accounts[creator], R.assetCounter + 1)
       IN IF a.err # NoErr THEN RtFail(a.err, R)
          ELSE LET R1 == [R EXCEPT !.assetCounter = @ + 1]
                   R2 == SetStore(R1, [R1.store EXCEPT !.accounts[creator] = a.acc])
               IN [err |-> NoErr,
                   R   |-> SetStore(R2, [R2.store EXCEPT
                                           !.assetDefs = (R1.assetCounter :> creator) @@ @]),
                   id  |-> R1.assetCounter]

\* Runtime.optIntoASA: the creator's holding starts with the total supply, any
\* other holding with 0
optIntoASA(R, assetIndex, address) ==
  IF getAssetDef(R.store, assetIndex) # NoErr THEN RtFail(getAssetDef(R.store, assetIndex), R)
  ELSE IF ~HasAccount(R.store, address) THEN RtFail("ACCOUNT_DOES_NOT_EXIST", R)
  ELSE IF assetIndex \in DOMAIN R.store.accounts[address].assets THEN RtOk(R)
  ELSE RtOk(SetStore(R, [R.store EXCEPT !.accounts[address].assets =
         (assetIndex :> [amount |-> IF R.store.assetDefs[assetIndex] = address
                                      THEN AssetDefOf(R.store, assetIndex).total ELSE 0,
                         frozen |-> FALSE]) @@ @]))

\* Runtime.destroyAsset: Ctx.destroyAsset on the state of the store
rtDestroyAsset(R, assetId) ==
  LET r == destroyAsset(R.store, assetId)
  IN IF r.err # NoErr THEN RtFail(r.err, R) ELSE RtOk(SetStore(R, r.state))

\* Runtime.transferAlgo, on the store
rtTransferAlgo(R, p) ==
  IF ~HasAccount(R.store, p.fromAccount) \/ ~HasAccount(R.store, p.toAccountAddr)
    THEN RtFail("ACCOUNT_DOES_NOT_EXIST", R)
  ELSE LET R1 == SetStore(R, [R.store EXCEPT
                                !.accounts[p.fromAccount].amount = @ - p.amountMicroAlgos])
       IN RtOk(SetStore(R1, [R1.store EXCEPT
                               !.accounts[p.toAccountAddr].amount = @ + p.amountMicroAlgos]))

\* the loop of Runtime.executeTx from position i: the program of every
\* application call runs on the context, with ctx.tx the first transaction
RECURSIVE rtRunFrom(_, _, _)
\* the loop after the program of transaction i ran with result r
rtRanAt(r, txnParams, i) ==
  IF r.err # NoErr THEN RtFail(r.err, r.R) ELSE rtRunFrom(r.R, txnParams, i + 1)

\* the transaction the programs of a group see
ctxTx(p) == AppTx(p.fromAccount, IF p.type \in SSCTypes THEN p.appId ELSE 0)

rtRunFrom(R, txnParams, i) ==
  IF i > Len(txnParams) THEN RtOk(R)
  ELSE IF txnParams[i].type \notin SSCTypes THEN rtRunFrom(R, txnParams, i + 1)
  ELSE IF getProgram(R, txnParams[i].appId) # NoErr
    THEN RtFail(getProgram(R, txnParams[i].appId), R)
  ELSE rtRanAt(rtRunMode(R, R.programMap[txnParams[i].appId]
                                        [IF txnParams[i].type = "ClearSSC" THEN 2 ELSE 1],
                         "STATEFUL"),
               txnParams, i)

\* the loop of Runtime.updateFinalState from position i
RECURSIVE rtFinalFrom(_, _, _)
\* the loop after transaction i was applied with result r
rtFinalAt(r, txnParams, i) ==
  IF r.err # NoErr THEN r ELSE rtFinalFrom(r.R, txnParams, i + 1)

rtFinalFrom(R, txnParams, i) ==
  IF i > Len(txnParams) THEN RtOk(R)
  ELSE rtFinalAt(CASE txnParams[i].type = "TransferAlgo" -> rtTransferAlgo(R, txnParams[i])
                   [] txnParams[i].type = "DeleteSSC" -> rtDeleteApp(R, txnParams[i].appId)
                   [] OTHER -> RtOk(R),
                 txnParams, i)

\* Runtime.updateFinalState: the context state becomes the store
updateFinalState(R, txnParams) ==
  rtFinalFrom([R EXCEPT !.store = R.ctx, !.whole = TRUE], txnParams, 1)

\* the context Runtime.executeTx builds: a fresh deep copy of the store, with
\* the first transaction of the group as ctx.tx (undefined for an empty group)
rtCreateTxnContext(R, txnParams) ==
  [R EXCEPT !.ctx = cloneDeep(R.store), !.shared = {}, !.whole = FALSE,
            !.tx = IF Len(txnParams) = 0 THEN UndefinedTx ELSE ctxTx(txnParams[1])]

\* the part of Runtime.executeTx after the programs ran with result r
rtExecuted(r, txnParams) ==
  IF r.err # NoErr THEN r ELSE updateFinalState(r.R, txnParams)

\* Runtime.executeTx (opcode-list.ts) for transactions signed by secret key:
\* the programs run on the fresh context, then updateFinalState
rtExecuteTx(R, txnParams) ==
  IF Len(txnParams) > MaxGroupSize
    THEN RtFail("GROUP_TOO_LARGE", R)
  ELSE rtExecuted(rtRunFrom(rtCreateTxnContext(R, txnParams), txnParams, 1), txnParams)

\* Runtime.getLogicSig: a new account object with no funds is set in the store
\* under the address of the logic signature (LsigAddr); an account the context shared
\* under that address stays in the context and is no longer the store's
getLogicSig(R) ==
  RtOk(SetStore([R EXCEPT !.shared = IF R.whole THEN @ ELSE @ \ {LsigAddr}],
                [R.store EXCEPT
                      !.accounts = (LsigAddr :> [NewAccount EXCEPT !.amount = 0]) @@ @]))

\* Runtime.initializeAccounts with one account: the account object is set in
\* the store under its address, and the applications and assets it created are
\* entered under that address
initializeAccounts(R, address, acc) ==
  RtOk(SetStore([R EXCEPT !.shared = IF R.whole THEN @ ELSE @ \ {address}],
                [R.store EXCEPT
                   !.accounts = (address :> acc) @@ @,
                   !.globalApps = [i \in DOMAIN acc.createdApps |-> address] @@ @,
                   !.assetDefs = [i \in DOMAIN acc.createdAssets |-> address] @@ @]))

\* --------------------------------------------------- lifecycle inputs
MaxApps == 2

\* micro-units an account of the Runtime may fall below its initial balance
MaxMoved == 1

Accept     == << OpInt(1) >>
Reject     == << OpInt(0) >>
PutG       == << OpByte("k"), OpInt(1), Ins("app_global_put"), OpInt(1) >>
PutL       == << OpInt(0), OpByte("k"), OpByte("x"), Ins("app_local_put"), OpInt(1) >>

RtPrograms == {Accept, Reject, PutG, PutL}

\* the clear program the applications are created and updated with
RtClearProgram == Reject

\* the account that creates, opts in, updates and calls
RtCreator == "A"

RtFlags(sender) == [sender |-> sender, globalSchema |-> TealSchema, localSchema |-> TealSchema]

RtAppIds == 1..MaxApps

RtTxns ==
  [type : {"CallNoOpSSC", "DeleteSSC"}, fromAccount : {RtCreator}, appId : RtAppIds,
   toAccountAddr : {Blank}, amountMicroAlgos : {0}]
  \cup
  [type : {"TransferAlgo"}, fromAccount : {RtCreator}, appId : {0},
   toAccountAddr : {"B"}, amountMicroAlgos : {1}]

\* the calls the Runtime is driven with: creations with an accepting and a
\* rejecting program, opt-in to and update of application 1 (the update installs
\* the program writing global state), deletion of either application, and
\* groups of one transaction
RtStepPrograms == {Accept, Reject}
RtStepTxns == {p \in RtTxns : p.type # "DeleteSSC" \/ p.appId = 1}

\* the group updateFinalState is called with directly
RtFinalGroups == {<< >>}

\* the program Runtime.run is called with directly, in either mode
RtRunPrograms == {PutG}

\* the transaction the context is given directly
RtCtxTxs == {AppTx(RtCreator, 1)}

\* the balances of the accounts stay within MaxMoved of the initial balance
WithinMoved(R) ==
  \A a \in RtAddr : R.store.accounts[a].amount >= InitBalance - MaxMoved

\* the lifecycle calls, as records
RtCalls ==
  [op : {"addApp"}, sender : {RtCreator}, appId : {0}, program : RtPrograms]
  \cup [op : {"optInToApp"}, sender : {RtCreator}, appId : RtAppIds, program : {Accept}]
  \cup [op : {"updateApp"}, sender : {RtCreator}, appId : RtAppIds, program : RtPrograms]
  \cup [op : {"deleteApp"}, sender : {RtCreator}, appId : RtAppIds, program : {Accept}]

\* the result of a lifecycle call
RtApply(R, c) ==
  CASE c.op = "addApp"     -> addApp(R, RtFlags(c.sender), c.program, RtClearProgram)
    [] c.op = "optInToApp" -> rtOptInToApp(R, c.sender, c.appId)
    [] c.op = "updateApp"  -> updateApp(R, c.sender, c.appId, c.program, RtClearProgram)
    [] c.op = "deleteApp"  -> rtDeleteApp(R, c.appId)

InitApp ==
  /\ store = NewRuntime
  /\ outcome = [op |-> "new", ok |-> TRUE, err |-> NoErr, id |-> 0, appId |-> 0]

Result(op, r, appId) ==
  [op |-> op, ok |-> r.err = NoErr, err |-> r.err, id |-> r.id, appId |-> appId]

AddApp(sender, approvalProgram) ==
  LET r == addApp(store, RtFlags(sender), approvalProgram, RtClearProgram)
  IN /\ store.appCounter < MaxApps
     /\ store' = r.R
     /\ outcome' = Result("addApp", r, 0)

OptInToApp(accountAddr, appId) ==
  LET r == rtOptInToApp(store, accountAddr, appId)
  IN /\ store' = r.R
     /\ outcome' = Result("optInToApp", r, appId)

UpdateApp(senderAddr, appId, approvalProgram) ==
  LET r == updateApp(store, senderAddr, appId, approvalProgram, RtClearProgram)
  IN /\ store' = r.R
     /\ outcome' = Result("updateApp", r, appId)

DeleteApp(appId) ==
  LET r == rtDeleteApp(store, appId)
  IN /\ store' = r.R
     /\ outcome' = Result("deleteApp", r, appId)

RtExecuteTx(p) ==
  LET r == rtExecuteTx(store, << p >>)
  IN /\ WithinMoved(r.R)
     /\ store' = r.R
     /\ outcome' = Result(p.type, r, p.appId)

\* the public methods below the lifecycle calls, called directly
TransferAlgo(p) ==
  LET r == rtTransferAlgo(store, p)
  IN /\ WithinMoved(r.R)
     /\ store' = r.R
     /\ outcome' = Result("transferAlgo", r, 0)

UpdateFinalState(txnParams) ==
  LET r == updateFinalState(store, txnParams)
  IN /\ WithinMoved(r.R)
     /\ store' = r.R
     /\ outcome' = Result("updateFinalState", r, 0)

GetLogicSig ==
  LET r == getLogicSig(store)
  IN /\ store' = r.R
     /\ outcome' = Result("getLogicSig", r, 0)

InitializeAccounts(address) ==
  LET r == initializeAccounts(store, address, NewAccount)
  IN /\ store' = r.R
     /\ outcome' = Result("initializeAccounts", r, 0)

SetCtxTx(tx) ==
  /\ store' = setCtxTx(store, tx)
  /\ outcome' = [op |-> "setCtxTx", ok |-> TRUE, err |-> NoErr, id |-> 0, appId |-> tx.apid]

Run(program, mode) ==
  LET r == rtRunMode(store, program, mode)
  IN /\ store' = r.R
     /\ outcome' = Result("run", r, 0)

NextApp ==
  \/ \E program \in RtStepPrograms : AddApp(RtCreator, program)
  \/ OptInToApp(RtCreator, 1)
  \/ UpdateApp(RtCreator, 1, PutG)
  \/ \E i \in RtAppIds : DeleteApp(i)
  \/ \E p \in RtStepTxns : RtExecuteTx(p)
  \/ \E p \in {q \in RtTxns : q.type = "TransferAlgo"} : TransferAlgo(p)
  \/ \E g \in RtFinalGroups : UpdateFinalState(g)
  \/ GetLogicSig
  \/ InitializeAccounts("B")
  \/ \E tx \in RtCtxTxs : SetCtxTx(tx)
  \/ \E program \in RtRunPrograms, mode \in {"STATEFUL", "STATELESS"} : Run(program, mode)

SpecApp == InitApp /\ [][NextApp]_vars

\* --------------------------------------------------- identifiers
MaxAssets == 2

RtAssetIds == 1..MaxAssets

RtCreateAsset(creator) ==
  LET r == createAsset(store, creator)
  IN /\ store.assetCounter < MaxAssets
     /\ store' = r.R
     /\ outcome' = Result("createAsset", r, 0)

RtOptIntoASA(assetIndex, address) ==
  LET r == optIntoASA(store, assetIndex, address)
  IN /\ store' = r.R
     /\ outcome' = Result("optIntoASA", r, assetIndex)

RtDestroyAsset(assetId) ==
  LET r == rtDestroyAsset(store, assetId)
  IN /\ store' = r.R
     /\ outcome' = Result("destroyAsset", r, assetId)

\* the lifecycle of applications and of assets: creations (accepted and
\* rejected), opt-ins, update, calls and deletions
NextIds ==
  \/ \E program \in RtStepPrograms : AddApp(RtCreator, program)
  \/ \E i \in RtAppIds : DeleteApp(i)
  \/ \E p \in {q \in RtStepTxns : q.type # "TransferAlgo"} : RtExecuteTx(p)
  \/ OptInToApp(RtCreator, 1)
  \/ UpdateApp(RtCreator, 1, PutG)
  \/ \E creator \in {RtCreator, Ghost} : RtCreateAsset(creator)
  \/ \E i \in RtAssetIds : RtOptIntoASA(i, RtCreator)
  \/ \E i \in RtAssetIds : RtDestroyAsset(i)

InitIds ==
  /\ store = NewRuntimeWithAssets
  /\ outcome = [op |-> "new", ok |-> TRUE, err |-> NoErr, id |-> 0, appId |-> 0]

SpecIds == InitIds /\ [][NextIds]_vars

\* what the getters of the Runtime show of an application and of an account's
\* local state, read from a state
AppView(st, creator, appId, accountAddr) ==
  [global |-> IF appId \in DOMAIN st.accounts[creator].createdApps
                THEN st.accounts[creator].createdApps[appId].globalState ELSE << >>,
   local  |-> LocalKv(st, accountAddr, appId)]

\* C21: global-state and local-state writes performed by the approval program
\* during an accepted addApp, optInToApp or updateApp call are visible afterwards
\* through getGlobalState / getLocalState: after the accepted call the store
\* shows, for the application and the caller, what the context the program
\* wrote to holds.
C21_LifecycleWritesVisible ==
  \A c \in RtCalls :
    LET r  == RtApply(store, c)
        id == IF c.op = "addApp" THEN r.id ELSE c.appId
    IN (c.op \in {"addApp", "optInToApp", "updateApp"} /\ r.err = NoErr) =>
         AppView(r.R.store, RtCreator, id, c.sender) = AppView(r.R.ctx, RtCreator, id, c.sender)

\* what a user of the Runtime can observe of it
Observable(R) ==
  [globalApps |-> R.store.globalApps,
   apps       |-> [a \in DOMAIN R.store.accounts |-> R.store.accounts[a].createdApps],
   local      |-> [a \in DOMAIN R.store.accounts |-> R.store.accounts[a].appsLocalState],
   appCounter |-> R.appCounter,
   programMap |-> R.programMap]

\* C22: an addApp, optInToApp or updateApp call whose approval program rejects
\* has no effect: the set of applications, the application counter, the programs,
\* every global and local state and every account's created applications
\* (a placeholder entry with id 0 included) are the same as before the call.
C22_RejectedLifecycleNoEffect ==
  \A c \in RtCalls :
    LET r == RtApply(store, c)
    IN (c.op \in {"addApp", "optInToApp", "updateApp"} /\ r.err # NoErr) =>
         Observable(r.R) = Observable(store)

\* C23: after every accepted application creation, call group or deletion,
\* every application id in globalApps has an entry in its creator's created
\* applications; after an accepted DeleteSSC (or deleteApp) the application is
\* absent both from globalApps and from the creator's created applications.
C23_GlobalAppsHaveCreator ==
  (outcome.ok /\ outcome.op \in {"addApp", "deleteApp", "CallNoOpSSC", "DeleteSSC",
                                  "TransferAlgo"}) =>
    /\ \A i \in DOMAIN store.store.globalApps :
         /\ HasAccount(store.store, store.store.globalApps[i])
         /\ i \in DOMAIN store.store.accounts[store.store.globalApps[i]].createdApps
    /\ outcome.op \in {"DeleteSSC", "deleteApp"} =>
         /\ outcome.appId \notin DOMAIN store.store.globalApps
         /\ \A a \in DOMAIN store.store.accounts :
              outcome.appId \notin DOMAIN store.store.accounts[a].createdApps

\* the transactions of the groups executeTx is examined with: those of RtTxns,
\* a payment to an address no account has, and the ClearSSC of the creator
RtPay(to) ==
  [type |-> "TransferAlgo", fromAccount |-> RtCreator, appId |-> 0,
   toAccountAddr |-> to, amountMicroAlgos |-> 1]

RtClear(appId) ==
  [type |-> "ClearSSC", fromAccount |-> RtCreator, appId |-> appId,
   toAccountAddr |-> Blank, amountMicroAlgos |-> 0]

RtGroups ==
  {<<p>> : p \in RtTxns \cup {RtPay(Ghost)}}
  \cup {<<p, q>> : p \in RtTxns, q \in RtTxns \cup {RtPay(Ghost)}}

\* C1: a transaction group that executeTx rejects, whatever the position and
\* the kind of the failure, leaves the store (balances, applications, global
\* and local state) as it was before the call, the effects of the earlier
\* transactions of the group included.
C1_RejectedLeavesStore ==
  \A g \in RtGroups :
    rtExecuteTx(store, g).err # NoErr => rtExecuteTx(store, g).R.store = store.store

\* C3: a ClearSSC whose clear program ends rejected by logic is accepted, and
\* after executeTx the sender's local state of the application is absent from
\* the store.
C3_ClearRejectedByLogicAccepted ==
  \A appId \in RtAppIds :
    (/\ getProgram(store, appId) = NoErr
     /\ appId \in DOMAIN store.store.accounts[RtCreator].appsLocalState
     /\ rtRunMode(rtCreateTxnContext(store, <<RtClear(appId)>>),
                  store.programMap[appId][2], "STATEFUL").err = "REJECTED_BY_LOGIC")
    => /\ rtExecuteTx(store, <<RtClear(appId)>>).err = NoErr
       /\ appId \notin DOMAIN rtExecuteTx(store, <<RtClear(appId)>>).R.store
                                 .accounts[RtCreator].appsLocalState

\* C26: application and asset identifiers handed out by the runtime are
\* strictly increasing over the successful creations and never reused: every
\* accepted addApp returns the application counter plus one and every accepted
\* createAsset the asset counter plus one, an identifier that no application,
\* program, asset or holding of the store carries, and no other step, a
\* deletion and a rejected creation included, changes either counter.
C26_IdStep ==
  /\ store'.appCounter >= store.appCounter
  /\ store'.assetCounter >= store.assetCounter
  /\ (outcome'.op = "addApp" /\ outcome'.ok) =>
       /\ outcome'.id = store.appCounter + 1
       /\ store'.appCounter = outcome'.id
       /\ outcome'.id \notin DOMAIN store.store.globalApps
       /\ outcome'.id \notin DOMAIN store.programMap
       /\ \A a \in DOMAIN store.store.accounts :
            outcome'.id \notin DOMAIN store.store.accounts[a].createdApps
  /\ ~(outcome'.op = "addApp" /\ outcome'.ok) => store'.appCounter = store.appCounter
  /\ (outcome'.op = "createAsset" /\ outcome'.ok) =>
       /\ outcome'.id = store.assetCounter + 1
       /\ store'.assetCounter = outcome'.id
       /\ outcome'.id \notin DOMAIN store.store.assetDefs
       /\ \A a \in DOMAIN store.store.accounts :
            /\ outcome'.id \notin DOMAIN store.store.accounts[a].createdAssets
            /\ outcome'.id \notin DOMAIN store.store.accounts[a].assets
  /\ ~(outcome'.op = "createAsset" /\ outcome'.ok) =>
       store'.assetCounter = store.assetCounter

C26_IdsNeverReused == [][C26_IdStep]_vars

\* the second creation of an asset returned 2 after asset 1 had been destroyed,
\* and the only application left is the second one, created after application
\* 1 had been deleted
C26_Witness ==
  /\ outcome.op = "createAsset"
  /\ outcome.ok
  /\ outcome.id = 2
  /\ DOMAIN store.store.accounts[RtCreator].createdAssets = {2}
  /\ store.appCounter = 2
  /\ DOMAIN store.store.globalApps = {2}
  /\ DOMAIN store.programMap = {2}

\* ------------------------------------------------------- account limits
\* the entry StoreAccountImpl.createApp makes for an application
NewApp(appId, params) ==
  [id |-> appId, approval |-> "", clear |-> "", creator |-> params.sender,
   globalState |-> << >>, globalSchema |-> params.globalSchema,
   localSchema |-> params.localSchema]

\* createApp without the limit on created applications
createApp_NoLimit(acc, appId, params) ==
  [err |-> NoErr, acc |-> [acc EXCEPT !.createdApps = Append(@, NewApp(appId, params))]]

\* StoreAccountImpl.createApp: createdApps is an array; the new entry is pushed
\* without looking for an entry of the same identifier, unless the array holds
\* ten entries
createApp(acc, appId, params) ==
  IF Len(acc.createdApps) = MaxCreatedApps
    THEN [err |-> "Maximum created applications for an account is 10", acc |-> acc]
  ELSE [err |-> NoErr, acc |-> [acc EXCEPT !.createdApps = Append(@, NewApp(appId, params))]]

\* an account whose createdApps array lists the applications 1..nApps, that
\* created the assets 1..nAssets and opted in to the applications 1..nOpt
LimitAccount(nApps, nOpt, nAssets) ==
  [NewAccount EXCEPT
     !.createdApps = [i \in 1..nApps |-> NewApp(i, RtFlags(RtCreator))],
     !.appsLocalState = [i \in 1..nOpt |-> [kv |-> << >>, schema |-> TealSchema]],
     !.createdAssets = [i \in 1..nAssets |-> [total |-> AssetTotal]]]

\* identifiers the account has not used yet
FreshIds == {MaxCreatedAssets + 1, MaxCreatedAssets + 2}

LimitOps == {"createApp", "optInToApp", "createAsset"}

\* the result of a creation or an opt-in on an account
LimitApply(acc, op, id) ==
  CASE op = "createApp"   -> createApp(acc, id, RtFlags(RtCreator))
    [] op = "optInToApp"  -> AccountOptInToApp(acc, id, RtFlags(RtCreator))
    [] op = "createAsset" -> AccountAddAsset(acc, id)

InitLimits ==
  /\ \E nApps \in {MaxCreatedApps - 3, MaxCreatedApps - 2, MaxCreatedApps - 1,
                    MaxCreatedApps},
        nOpt \in {0, MaxOptedInApps - 2, MaxOptedInApps - 1, MaxOptedInApps},
        nAssets \in {0, MaxCreatedAssets - 2, MaxCreatedAssets - 1, MaxCreatedAssets} :
       store = LimitAccount(nApps, nOpt, nAssets)
  /\ outcome = [op |-> "new", ok |-> TRUE, err |-> NoErr, id |-> 0]

CreateApp(appId) ==
  LET r == createApp(store, appId, RtFlags(RtCreator))
  IN /\ store' = r.acc
     /\ outcome' = [op |-> "createApp", ok |-> r.err = NoErr, err |-> r.err, id |-> appId]

AccountOptIn(appId) ==
  LET r == AccountOptInToApp(store, appId, RtFlags(RtCreator))
  IN /\ store' = r.acc
     /\ outcome' = [op |-> "optInToApp", ok |-> r.err = NoErr, err |-> r.err, id |-> appId]

CreateAsset(assetId) ==
  LET r == AccountAddAsset(store, assetId)
  IN /\ store' = r.acc
     /\ outcome' = [op |-> "createAsset", ok |-> r.err = NoErr, err |-> r.err, id |-> assetId]

NextLimits ==
  \/ \E i \in FreshIds \cup {1} : CreateApp(i)
  \/ \E i \in FreshIds \cup {1} : AccountOptIn(i)
  \/ \E i \in FreshIds : CreateAsset(i)

SpecLimits == InitLimits /\ [][NextLimits]_vars

\* C24: no account lists more than 10 created applications, more than 10
\* application opt-ins or more than 1000 created assets, and the operation that
\* would exceed one of these limits is rejected and leaves the account as it was.
C24_AccountLimits ==
  /\ Cardinality(DOMAIN store.createdApps) <= MaxCreatedApps
  /\ Cardinality(DOMAIN store.appsLocalState) <= MaxOptedInApps
  /\ Cardinality(DOMAIN store.createdAssets) <= MaxCreatedAssets
  /\ \A op \in LimitOps, i \in FreshIds \cup {1} :
       LET r    == LimitApply(store, op, i)
           list == CASE op = "createApp"   -> store.createdApps
                     [] op = "optInToApp"  -> store.appsLocalState
                     [] op = "createAsset" -> store.createdAssets
           max  == CASE op = "createApp"   -> MaxCreatedApps
                     [] op = "optInToApp"  -> MaxOptedInApps
                     [] op = "createAsset" -> MaxCreatedAssets
       IN /\ ((op = "optInToApp" => i \notin DOMAIN list)
               /\ Cardinality(DOMAIN list) >= max) =>
               (r.err # NoErr /\ r.acc = store)
          /\ Cardinality(DOMAIN list) < max => r.err = NoErr

\* the eleventh creation of an application was refused on an account that
\* lists ten applications, ten opt-ins and a thousand assets
C24_Witness ==
  /\ outcome.op = "createApp"
  /\ ~outcome.ok
  /\ Cardinality(DOMAIN store.createdApps) = MaxCreatedApps
  /\ Cardinality(DOMAIN store.appsLocalState) = MaxOptedInApps
  /\ Cardinality(DOMAIN store.createdAssets) = MaxCreatedAssets

\* ------------------------------------------------------ arithmetic opcodes
\* The word of the model is UintBits wide where the code's is 64: MAX_UINT64
\* stands for 2^64 - 1.  Values are JavaScript bigints, unbounded and signed;
\* only the checks of the opcodes keep them within the word.
UintBits == 8

MAX_UINT64 == 2^UintBits - 1
MIN_UINT64 == 0

\* Op.checkOverflow / Op.checkUnderflow
checkOverflow(num) == IF num > MAX_UINT64 THEN "UINT64_OVERFLOW" ELSE NoErr

checkUnderflow(num) == IF num < MIN_UINT64 THEN "UINT64_UNDERFLOW" ELSE NoErr

\* the bigint operators |, &, ^ on non-negative values, and ~
RECURSIVE BigOr(_, _)
BigOr(a, b) ==
  IF a = 0 THEN b ELSE IF b = 0 THEN a
  ELSE (IF a % 2 = 1 \/ b % 2 = 1 THEN 1 ELSE 0) + 2 * BigOr(a \div 2, b \div 2)

RECURSIVE BigAnd(_, _)
BigAnd(a, b) ==
  IF a = 0 \/ b = 0 THEN 0
  ELSE (IF a % 2 = 1 /\ b % 2 = 1 THEN 1 ELSE 0) + 2 * BigAnd(a \div 2, b \div 2)

RECURSIVE BigXor(_, _)
BigXor(a, b) ==
  IF a = 0 THEN b ELSE IF b = 0 THEN a
  ELSE (IF a % 2 # b % 2 THEN 1 ELSE 0) + 2 * BigXor(a \div 2, b \div 2)

BigNot(a) == 0 - a - 1

\* assertMinStackLen(stack, n) followed by assertBigInt on the n values popped
assertUints(m, n) ==
  IF Len(m.stack) < n THEN "ASSERT_STACK_LENGTH"
  ELSE IF \E k \in 0..(n - 1) : Peek(m, k).t # "uint64" THEN "INVALID_TYPE"
  ELSE NoErr

\* Add pushing the sum reduced to the word instead of failing
Add_Wrap(m) ==
  IF assertUints(m, 2) # NoErr THEN Raise(m, assertUints(m, 2))
  ELSE Push(Drop(m, 2), U((Peek(m, 1).v + Peek(m, 0).v) % (MAX_UINT64 + 1)))

\* Add: pops last and prev, pushes prev + last, fails on overflow
Add(m) ==
  IF assertUints(m, 2) # NoErr THEN Raise(m, assertUints(m, 2))
  ELSE LET result == Peek(m, 1).v + Peek(m, 0).v
       IN IF checkOverflow(result) # NoErr THEN Raise(m, checkOverflow(result))
          ELSE Push(Drop(m, 2), U(result))

\* Sub: pushes prev - last, fails on underflow
Sub(m) ==
  IF assertUints(m, 2) # NoErr THEN Raise(m, assertUints(m, 2))
  ELSE LET result == Peek(m, 1).v - Peek(m, 0).v
       IN IF checkUnderflow(result) # NoErr THEN Raise(m, checkUnderflow(result))
          ELSE Push(Drop(m, 2), U(result))

\* Div: pushes prev / last, fails when last is 0
Div(m) ==
  IF assertUints(m, 2) # NoErr THEN Raise(m, assertUints(m, 2))
  ELSE IF Peek(m, 0).v = 0 THEN Raise(m, "ZERO_DIV")
  ELSE Push(Drop(m, 2), U(Peek(m, 1).v \div Peek(m, 0).v))

\* Mul: pushes prev * last, fails on overflow
Mul(m) ==
  IF assertUints(m, 2) # NoErr THEN Raise(m, assertUints(m, 2))
  ELSE LET result == Peek(m, 1).v * Peek(m, 0).v
       IN IF checkOverflow(result) # NoErr THEN Raise(m, checkOverflow(result))
          ELSE Push(Drop(m, 2), U(result))

\* Mod: pushes prev % last, fails when last is 0
Mod(m) ==
  IF assertUints(m, 2) # NoErr THEN Raise(m, assertUints(m, 2))
  ELSE IF Peek(m, 0).v = 0 THEN Raise(m, "ZERO_DIV")
  ELSE Push(Drop(m, 2), U(Peek(m, 1).v % Peek(m, 0).v))

BitwiseOr(m) ==
  IF assertUints(m, 2) # NoErr THEN Raise(m, assertUints(m, 2))
  ELSE Push(Drop(m, 2), U(BigOr(Peek(m, 1).v, Peek(m, 0).v)))

BitwiseAnd(m) ==
  IF assertUints(m, 2) # NoErr THEN Raise(m, assertUints(m, 2))
  ELSE Push(Drop(m, 2), U(BigAnd(Peek(m, 1).v, Peek(m, 0).v)))

BitwiseXor(m) ==
  IF assertUints(m, 2) # NoErr THEN Raise(m, assertUints(m, 2))
  ELSE Push(Drop(m, 2), U(BigXor(Peek(m, 1).v, Peek(m, 0).v)))

\* BitwiseNot: pushes ~last, the bigint complement
BitwiseNot(m) ==
  IF assertUints(m, 1) # NoErr THEN Raise(m, assertUints(m, 1))
  ELSE Push(Drop(m, 1), U(BigNot(Peek(m, 0).v)))

\* Addw with the carry on top of the sum
Addw_CarryOnTop(m) ==
  IF assertUints(m, 2) # NoErr THEN Raise(m, assertUints(m, 2))
  ELSE LET valueC == Peek(m, 0).v + Peek(m, 1).v
       IN IF valueC > MAX_UINT64
            THEN Push(Push(Drop(m, 2), U((valueC - MAX_UINT64) - 1)), U(1))
          ELSE Push(Push(Drop(m, 2), U(valueC)), U(0))

\* Addw: pushes the carry, then the sum
Addw(m) ==
  IF assertUints(m, 2) # NoErr THEN Raise(m, assertUints(m, 2))
  ELSE LET valueC == Peek(m, 0).v + Peek(m, 1).v
       IN IF valueC > MAX_UINT64
            THEN Push(Push(Drop(m, 2), U(1)), U((valueC - MAX_UINT64) - 1))
          ELSE Push(Push(Drop(m, 2), U(0)), U(valueC))

\* Mulw: pushes the high word, then the low word of the product
Mulw(m) ==
  IF assertUints(m, 2) # NoErr THEN Raise(m, assertUints(m, 2))
  ELSE LET result == Peek(m, 0).v * Peek(m, 1).v
           low    == BigAnd(result, MAX_UINT64)
           high   == result \div (MAX_UINT64 + 1)
       IN IF checkOverflow(low) # NoErr THEN Raise(m, checkOverflow(low))
          ELSE IF checkOverflow(high) # NoErr THEN Raise(m, checkOverflow(high))
          ELSE Push(Push(Drop(m, 2), U(high)), U(low))

ArithOps == {"+", "-", "/", "*", "%", "|", "&", "^", "~", "addw", "mulw"}

\* the execute method of the opcode on a machine
executeArith(m, op) ==
  CASE op = "+"    -> Add(m)
    [] op = "-"    -> Sub(m)
    [] op = "/"    -> Div(m)
    [] op = "*"    -> Mul(m)
    [] op = "%"    -> Mod(m)
    [] op = "|"    -> BitwiseOr(m)
    [] op = "&"    -> BitwiseAnd(m)
    [] op = "^"    -> BitwiseXor(m)
    [] op = "~"    -> BitwiseNot(m)
    [] op = "addw" -> Addw(m)
    [] op = "mulw" -> Mulw(m)

\* operands at and around the ends of the word and the square root of its size
ArithValues ==
  {0, 1, 2, 3, 2^(UintBits \div 2) - 1, 2^(UintBits \div 2), 2^(UintBits \div 2) + 1,
   MAX_UINT64 - 2, MAX_UINT64 - 1, MAX_UINT64}

ArithStacks ==
  {<< U(a), U(b) >> : a \in ArithValues, b \in ArithValues}
  \cup {<< >>, << U(1) >>, << B("x"), U(1) >>, << U(1), B("x") >>}

Machine(stack) == [err |-> NoErr, stack |-> stack, state |-> EmptyState, halted |-> FALSE]

InitArith ==
  /\ store \in [stack : ArithStacks]
  /\ outcome = [op |-> "new", err |-> NoErr, stack |-> store.stack]

\* one opcode executes on the stack drawn initially
ExecuteArith(op) ==
  LET m == executeArith(Machine(store.stack), op)
  IN /\ store' = store
     /\ outcome' = [op |-> op, err |-> m.err, stack |-> m.stack]

NextArith == \E op \in ArithOps : ExecuteArith(op)

SpecArith == InitArith /\ [][NextArith]_vars

TwoUints == Len(store.stack) = 2 /\ store.stack[1].t = "uint64" /\ store.stack[2].t = "uint64"

\* C27: for all u64 a and b, addw pushes the carry and then the sum, where
\* carry = 1 and sum = (a + b) mod 2^64 when a + b > 2^64 - 1, and carry = 0 and
\* sum = a + b otherwise.
C27_AddwCarryThenSum ==
  (TwoUints /\ outcome.op = "addw") =>
    LET a == store.stack[1].v
        b == store.stack[2].v
    IN /\ outcome.err = NoErr
       /\ outcome.stack =
            IF a + b > MAX_UINT64 THEN << U(1), U((a + b) % (MAX_UINT64 + 1)) >>
            ELSE << U(0), U(a + b) >>

\* addw of the largest word and 3 left carry 1 below sum 2
C27_Witness ==
  /\ store.stack = << U(MAX_UINT64), U(3) >>
  /\ outcome.op = "addw"
  /\ outcome.stack = << U(1), U(2) >>

\* C28: every integer value an opcode pushes onto the stack, the results of
\* the bitwise operators ~, &, | and ^ included, lies in [0, 2^64 - 1].
C28_PushedValuesAreU64 ==
  (TwoUints /\ outcome.err = NoErr) =>
    \A k \in 1..Len(outcome.stack) :
      outcome.stack[k].t = "uint64" =>
        (outcome.stack[k].v >= 0 /\ outcome.stack[k].v <= MAX_UINT64)

\* C29: for all u64 a and b, +, - and * push the exact result when it lies in
\* [0, 2^64 - 1] and otherwise reject with UINT64_OVERFLOW (+, *) or
\* UINT64_UNDERFLOW (-); / and % reject with ZERO_DIV when the divisor is 0 and
\* push quotient and remainder otherwise; nothing wraps around.
C29_ExactOrRejected ==
  (TwoUints /\ outcome.op \in {"+", "-", "*", "/", "%"}) =>
    LET a == store.stack[1].v
        b == store.stack[2].v
        exact == CASE outcome.op = "+" -> a + b
                   [] outcome.op = "-" -> a - b
                   [] outcome.op = "*" -> a * b
                   [] outcome.op = "/" -> IF b = 0 THEN 0 ELSE a \div b
                   [] outcome.op = "%" -> IF b = 0 THEN 0 ELSE a % b
    IN IF outcome.op \in {"/", "%"} /\ b = 0 THEN outcome.err = "ZERO_DIV"
       ELSE IF exact > MAX_UINT64 THEN outcome.err = "UINT64_OVERFLOW"
       ELSE IF exact < 0 THEN outcome.err = "UINT64_UNDERFLOW"
       ELSE outcome.err = NoErr /\ outcome.stack = << U(exact) >>

\* the largest word plus 1 was rejected with UINT64_OVERFLOW
C29_Witness ==
  /\ store.stack = << U(MAX_UINT64), U(1) >>
  /\ outcome.op = "+"
  /\ outcome.err = "UINT64_OVERFLOW"

\* the calls of app_local_get_ex and app_global_get_ex among AppCalls, with
\* the key-value map each of them reads
ExCalls == {c \in AppCalls : c[Len(c)].op \in {"app_local_get_ex", "app_global_get_ex"}}

ExKv(st, c) ==
  IF c[Len(c)].op = "app_local_get_ex"
    THEN LocalKv(st, IF c[1].arg.v = 0 THEN TealTx.snd ELSE TealTx.apat[c[1].arg.v],
                 c[2].arg.v)
  ELSE GlobalKv(st, IF c[1].arg.v = 0 THEN TealTx.apid ELSE TealTx.apfa[c[1].arg.v])

\* C30 as stated: app_local_get_ex and app_global_get_ex leave a did_exist
\* flag (0 or 1) below the value; when the flag is 0 the value is Uint64(0),
\* when it is 1 the value is the one stored.
C30_FlagBelowValue ==
  \A c \in ExCalls :
    LET m == runOps(c, "STATEFUL", store, TealTx)
    IN m.err = NoErr =>
         /\ Len(m.stack) = 2
         /\ m.stack[1] \in {U(0), U(1)}
         /\ m.stack[1] = U(0) => m.stack[2] = U(0)
         /\ m.stack[1] = U(1) => m.stack[2] = ExKv(store, c)[c[Len(c) - 1].arg.b]

\* C30: app_local_get_ex and app_global_get_ex push the value and then a
\* did_exist flag (0 or 1), so that the flag sits on top of the value; when the
\* flag is 0 the value is Uint64(0), when it is 1 the value is the one stored.
C30_FlagOnTopOfValue ==
  \A c \in ExCalls :
    LET m == runOps(c, "STATEFUL", store, TealTx)
    IN m.err = NoErr =>
         /\ Len(m.stack) = 2
         /\ m.stack[2] \in {U(0), U(1)}
         /\ m.stack[2] = U(0) => m.stack[1] = U(0)
         /\ m.stack[2] = U(1) => m.stack[1] = ExKv(store, c)[c[Len(c) - 1].arg.b]

\* an app_local_get_ex of a key holding a byte string ended with the byte
\* string below the flag 1
C30_Witness ==
  /\ outcome.mode = "STATEFUL"
  /\ outcome.stack = << B("x"), U(1) >>
  /\ Truthy(LocalKv(store, "A", AppId1), "k")
  /\ LocalKv(store, "A", AppId1)["k"] = B("x")
  /\ ~Truthy(GlobalKv(store, AppId1), "k")

\* C39: app_local_get_ex and app_global_get_ex report did_exist = 1 for every
\* key that is present in the queried state, a key whose stored value is
\* Uint64(0) included, and report did_exist = 0 only for keys that are absent.
C39_DidExistIffPresent ==
  \A c \in ExCalls :
    LET m == runOps(c, "STATEFUL", store, TealTx)
    IN m.err = NoErr =>
         /\ Len(m.stack) = 2
         /\ m.stack[2] = IF c[Len(c) - 1].arg.b \in DOMAIN ExKv(store, c) THEN U(1) ELSE U(0)

\* the opcodes that take an account index, on every index up to two beyond the
\* length of Txn.Accounts
AccountIndexes == 0..(Len(TealTx.apat) + 2)

AccountCalls ==
  {<<OpInt(i), OpInt(a), Ins("app_opted_in")>> : i \in AccountIndexes, a \in {AppId1, AppId2}}
  \cup {<<OpInt(i), OpByte("k"), Ins("app_local_get")>> : i \in AccountIndexes}
  \cup {<<OpInt(i), OpInt(AppId1), OpByte("k"), Ins("app_local_get_ex")>> : i \in AccountIndexes}
  \cup {<<OpInt(i), OpByte("k"), OpInt(1), Ins("app_local_put")>> : i \in AccountIndexes}
  \cup {<<OpInt(i), OpByte("k"), Ins("app_local_del")>> : i \in AccountIndexes}

\* the account the convention gives to index i
AccountAt(tx, i) == IF i = 0 THEN tx.snd ELSE tx.apat[i]

\* what the opcode of call c leaves when it acts on the account at address addr
ActsOn(st, m, c, addr) ==
  LET op == c[Len(c)].op
      kv == LocalKv(st, addr, TealTx.apid)
  IN /\ \A a \in DOMAIN st.accounts : a # addr => m.state.accounts[a] = st.accounts[a]
     /\ op = "app_opted_in" =>
          m.stack = << IF c[2].arg.v \in DOMAIN st.accounts[addr].appsLocalState
                         THEN U(1) ELSE U(0) >>
     /\ op = "app_local_get" =>
          m.stack = << IF Truthy(kv, "k") THEN kv["k"] ELSE U(0) >>
     /\ op = "app_local_get_ex" =>
          m.stack = IF Truthy(kv, "k") THEN << kv["k"], U(1) >> ELSE << U(0), U(0) >>
     /\ op = "app_local_put" =>
          LocalKv(m.state, addr, TealTx.apid) = KvSet(kv, "k", U(1))
     /\ op = "app_local_del" =>
          LocalKv(m.state, addr, TealTx.apid) = MapDelete(kv, "k")

\* C34: in every opcode that takes an account index, index 0 denotes the
\* sender of the current transaction and index i with 1 <= i <= N denotes
\* entry i - 1 of that transaction's Accounts array of length N; any index
\* greater than N fails (INDEX_OUT_OF_BOUND) without touching any account.
C34_AccountIndexing ==
  \A c \in AccountCalls :
    LET i == c[1].arg.v
        m == runOps(c, "STATEFUL", store, TealTx)
    IN IF i > Len(TealTx.apat)
         THEN m.err = "INDEX_OUT_OF_BOUND" /\ m.state = store
       ELSE /\ m.err # "INDEX_OUT_OF_BOUND"
            /\ m.err = NoErr => ActsOn(store, m, c, AccountAt(TealTx, i))

\* a program naming index 2 with one entry in Txn.Accounts was rejected, in a
\* store where the sender and Txn.Accounts[0] hold different local states
C34_Witness ==
  /\ outcome.err = "INDEX_OUT_OF_BOUND"
  /\ outcome.mode = "STATEFUL"
  /\ LocalKv(store, AccountAt(TealTx, 0), TealTx.apid)
       # LocalKv(store, AccountAt(TealTx, 1), TealTx.apid)

\* ------------------------------------------------- bit and byte opcodes
\* A byte string is a Uint8Array object.  The machine keeps the objects in a
\* heap; the stack, the scratch space and bytecblock hold references to them,
\* so that two holders of one object see each other's writes.
MAX_CONCAT_SIZE == 4096

ScratchSlots == 2

Ref(r) == [t |-> "bytes", v |-> r, b |-> ""]

\* the byte string a value refers to
Deref(m, x) == m.heap[x.v]

\* new Uint8Array(bytes) pushed onto the stack
PushNew(m, bytes) ==
  [m EXCEPT !.heap = Append(@, bytes), !.stack = Append(@, Ref(Len(m.heap) + 1))]

\* BigInt.prototype.toString(2) of a non-negative value: digits, highest first
RECURSIVE ToBinary(_)
ToBinary(n) == IF n < 2 THEN << n >> ELSE Append(ToBinary(n \div 2), n % 2)

\* String.prototype.padStart(n, "0")
padStart(str, n) ==
  IF Len(str) >= n THEN str
  ELSE [i \in 1..n |-> IF i <= n - Len(str) THEN 0 ELSE str[i - (n - Len(str))]]

\* parseBinaryStrToBigInt: the value of an array of binary digits
RECURSIVE parseBinaryStrToBigInt(_)
parseBinaryStrToBigInt(arr) ==
  IF Len(arr) = 0 THEN 0
  ELSE 2 * parseBinaryStrToBigInt(SubSeq(arr, 1, Len(arr) - 1)) + arr[Len(arr)]

\* Op.assert64BitIndex, on the word of the model
assert64BitIndex(index) == IF index > UintBits - 1 THEN "SET_BIT_INDEX_ERROR" ELSE NoErr

\* Op.assertBytesIndex
assertBytesIndex(index, bytes) ==
  IF index >= Len(bytes) THEN "SET_BIT_INDEX_BYTES_ERROR" ELSE NoErr

\* Op.assertUint8
assertUint8(a) == IF a < 0 \/ a > 255 THEN "INVALID_UINT8" ELSE NoErr

\* GetBit on an integer target: the digit at size - index - 1 of the unpadded
\* binary string; a position before the string reads undefined, and
\* BigInt(undefined) throws a TypeError
GetBitUint(m, target, index) ==
  IF assert64BitIndex(index) # NoErr THEN Raise(m, assert64BitIndex(index))
  ELSE IF Len(ToBinary(target)) - index - 1 < 0 THEN Raise(m, "TypeError")
  ELSE Push(Drop(m, 2), U(ToBinary(target)[Len(ToBinary(target)) - index]))

\* GetBit on a byte string: digit index % 8 of the byte index div 8, padded to
\* eight digits
GetBitBytes(m, bytes, index) ==
  IF assertBytesIndex(index \div 8, bytes) # NoErr
    THEN Raise(m, assertBytesIndex(index \div 8, bytes))
  ELSE Push(Drop(m, 2), U(padStart(ToBinary(bytes[(index \div 8) + 1]), 8)[(index % 8) + 1]))

\* GetBit: pops index and target, pushes the bit
GetBit(m) ==
  IF Len(m.stack) < 2 THEN Raise(m, "ASSERT_STACK_LENGTH")
  ELSE IF Peek(m, 0).t # "uint64" THEN Raise(m, "INVALID_TYPE")
  ELSE IF Peek(m, 1).t = "uint64" THEN GetBitUint(m, Peek(m, 1).v, Peek(m, 0).v)
  ELSE GetBitBytes(m, Deref(m, Peek(m, 1)), Peek(m, 0).v)

\* SetBit on an integer target: the digit at size - index - 1 of the binary
\* string padded to the word is replaced
SetBitUint(m, target, index, bit) ==
  IF assert64BitIndex(index) # NoErr THEN Raise(m, assert64BitIndex(index))
  ELSE Push(Drop(m, 3),
            U(parseBinaryStrToBigInt(
                [padStart(ToBinary(target), UintBits) EXCEPT ![UintBits - index] = bit])))

\* the byte with the bit of weight 2^(7 - targetBit) set or cleared
MaskByte(byte, targetBit, bit) ==
  IF bit = 1 THEN BigOr(byte, 2^(7 - targetBit))
  ELSE BigAnd(byte, 255 - 2^(7 - targetBit))

\* SetBit on a byte string: the byte of the target object is written in place
\* and the same object is pushed
SetBitBytes(m, target, index, bit) ==
  IF assertBytesIndex(index \div 8, Deref(m, target)) # NoErr
    THEN Raise(m, assertBytesIndex(index \div 8, Deref(m, target)))
  ELSE Push([Drop(m, 3) EXCEPT
               !.heap[target.v][(index \div 8) + 1] = MaskByte(@, index % 8, bit)],
            target)

\* SetBit: pops bit, index and target, pushes the target with the bit set
SetBit(m) ==
  IF Len(m.stack) < 3 THEN Raise(m, "ASSERT_STACK_LENGTH")
  ELSE IF Peek(m, 0).t # "uint64" \/ Peek(m, 1).t # "uint64" THEN Raise(m, "INVALID_TYPE")
  ELSE IF Peek(m, 0).v > 1 THEN Raise(m, "SET_BIT_VALUE_ERROR")
  ELSE IF Peek(m, 2).t = "uint64"
    THEN SetBitUint(m, Peek(m, 2).v, Peek(m, 1).v, Peek(m, 0).v)
  ELSE SetBitBytes(m, Peek(m, 2), Peek(m, 1).v, Peek(m, 0).v)

\* SetByte: pops the small integer, the index and the target, writes the byte
\* of the target object in place and pushes the same object
SetByte(m) ==
  IF Len(m.stack) < 3 THEN Raise(m, "ASSERT_STACK_LENGTH")
  ELSE IF Peek(m, 0).t # "uint64" \/ Peek(m, 1).t # "uint64" \/ Peek(m, 2).t # "bytes"
    THEN Raise(m, "INVALID_TYPE")
  ELSE IF assertUint8(Peek(m, 0).v) # NoErr THEN Raise(m, assertUint8(Peek(m, 0).v))
  ELSE IF assertBytesIndex(Peek(m, 1).v, Deref(m, Peek(m, 2))) # NoErr
    THEN Raise(m, assertBytesIndex(Peek(m, 1).v, Deref(m, Peek(m, 2))))
  ELSE Push([Drop(m, 3) EXCEPT !.heap[Peek(m, 2).v][Peek(m, 1).v + 1] = Peek(m, 0).v],
            Peek(m, 2))

\* GetByte: pops index and target, pushes the byte as an integer
GetByte(m) ==
  IF Len(m.stack) < 2 THEN Raise(m, "ASSERT_STACK_LENGTH")
  ELSE IF Peek(m, 0).t # "uint64" \/ Peek(m, 1).t # "bytes" THEN Raise(m, "INVALID_TYPE")
  ELSE IF assertBytesIndex(Peek(m, 0).v, Deref(m, Peek(m, 1))) # NoErr
    THEN Raise(m, assertBytesIndex(Peek(m, 0).v, Deref(m, Peek(m, 1))))
  ELSE Push(Drop(m, 2), U(Deref(m, Peek(m, 1))[Peek(m, 0).v + 1]))

\* Concat joining the operands in the order they are popped
Concat_Swapped(m) ==
  IF Len(m.stack) < 2 THEN Raise(m, "ASSERT_STACK_LENGTH")
  ELSE IF Peek(m, 0).t # "bytes" \/ Peek(m, 1).t # "bytes" THEN Raise(m, "INVALID_TYPE")
  ELSE IF Len(Deref(m, Peek(m, 0))) + Len(Deref(m, Peek(m, 1))) > MAX_CONCAT_SIZE
    THEN Raise(m, "CONCAT_ERROR")
  ELSE PushNew(Drop(m, 2), Deref(m, Peek(m, 0)) \o Deref(m, Peek(m, 1)))

\* Concat: pops valueA and valueB, pushes a new byte string of valueB followed
\* by valueA
Concat(m) ==
  IF Len(m.stack) < 2 THEN Raise(m, "ASSERT_STACK_LENGTH")
  ELSE IF Peek(m, 0).t # "bytes" \/ Peek(m, 1).t # "bytes" THEN Raise(m, "INVALID_TYPE")
  ELSE IF Len(Deref(m, Peek(m, 0))) + Len(Deref(m, Peek(m, 1))) > MAX_CONCAT_SIZE
    THEN Raise(m, "CONCAT_ERROR")
  ELSE PushNew(Drop(m, 2), Deref(m, Peek(m, 1)) \o Deref(m, Peek(m, 0)))

\* Dup: the popped value is pushed twice
Dup(m) ==
  IF Len(m.stack) < 1 THEN Raise(m, "ASSERT_STACK_LENGTH")
  ELSE Push(m, Peek(m, 0))

\* Bytec: the constant object of bytecblock is pushed
Bytec(m, index) ==
  IF ~(index >= 0 /\ index < Len(m.bytecblock)) THEN Raise(m, "INDEX_OUT_OF_BOUND")
  ELSE Push(m, m.bytecblock[index + 1])

\* Store: the popped value goes to the scratch slot
Store(m, index) ==
  IF index \notin DOMAIN m.scratch THEN Raise(m, "INDEX_OUT_OF_BOUND")
  ELSE IF Len(m.stack) < 1 THEN Raise(m, "ASSERT_STACK_LENGTH")
  ELSE [Drop(m, 1) EXCEPT !.scratch[index] = Peek(m, 0)]

\* Load: the value of the scratch slot is pushed
Load(m, index) ==
  IF index \notin DOMAIN m.scratch THEN Raise(m, "INDEX_OUT_OF_BOUND")
  ELSE Push(m, m.scratch[index])

\* the execute method of one instruction; arg is its immediate argument
executeBytes(m, ins) ==
  CASE ins.op = "int"     -> Push(m, U(ins.arg))
    [] ins.op = "byte"    -> PushNew(m, ins.arg)
    [] ins.op = "bytec"   -> Bytec(m, ins.arg)
    [] ins.op = "dup"     -> Dup(m)
    [] ins.op = "store"   -> Store(m, ins.arg)
    [] ins.op = "load"    -> Load(m, ins.arg)
    [] ins.op = "getbit"  -> GetBit(m)
    [] ins.op = "setbit"  -> SetBit(m)
    [] ins.op = "getbyte" -> GetByte(m)
    [] ins.op = "setbyte" -> SetByte(m)
    [] ins.op = "concat"  -> Concat(m)

\* the instructions of a program executed in order until one fails
RECURSIVE runBytes(_, _, _)
runBytes(m, program, pc) ==
  IF pc > Len(program) \/ m.err # NoErr THEN m
  ELSE runBytes(executeBytes(m, program[pc]), program, pc + 1)

Op0(op) == [op |-> op, arg |-> 0]
Op1(op, arg) == [op |-> op, arg |-> arg]

\* ---------------------------------------------- bit and byte inputs
\* the constant of bytecblock
BlockConst == << 128, 1 >>

\* the machine of a program whose first instruction was bytecblock BlockConst
NewByteMachine ==
  [err |-> NoErr, stack |-> << >>, heap |-> << BlockConst >>,
   scratch |-> [i \in 0..(ScratchSlots - 1) |-> U(0)], bytecblock |-> << Ref(1) >>]

Zeros(n) == [i \in 1..n |-> 0]

\* integers at the ends of the word and in between
BitValues == {0, 1, 2, 5, 2^(UintBits - 1), MAX_UINT64}

ByteConsts == {<< 0 >>, << 255 >>, << 128, 1 >>}

\* the instructions that put a target on the stack
BitTargets ==
  {<< Op1("int", x) >> : x \in BitValues}
  \cup {<< Op1("byte", c) >> : c \in ByteConsts}
  \cup {<< Op1("bytec", 0) >>}

\* the instructions that leave a second holder of the target
Holders ==
  {<< >>, << Op0("dup") >>, << Op0("dup"), Op1("store", 0) >>,
   << Op0("dup"), Op1("store", 1), Op1("load", 1) >>}

\* the index and the value pushed on top of the target
BitArgs ==
  {<< Op1("int", i) >> : i \in 0..(2 * UintBits)}
  \cup {<< Op1("int", i), Op1("int", v) >> : i \in 0..(2 * UintBits), v \in {0, 1, 2, 255, 256}}

\* the operands of concat, up to and beyond the largest byte string
ConcatConsts == {<< >>, << 7 >>, << 8, 9 >>, Zeros(MAX_CONCAT_SIZE - 1), Zeros(MAX_CONCAT_SIZE)}

BytePrologues ==
  {t \o h \o a : t \in BitTargets, h \in Holders, a \in BitArgs}
  \cup {<< Op1("byte", a), Op1("byte", b) >> : a \in ConcatConsts, b \in ConcatConsts}
  \cup {<< >>, << Op1("int", 1), Op1("byte", << 7 >>) >>}

ByteOps == {"getbit", "setbit", "getbyte", "setbyte", "concat"}

\* store is the machine a prologue left; outcome the machine after one opcode
InitBytes ==
  /\ store \in {runBytes(NewByteMachine, p, 1) : p \in BytePrologues}
  /\ outcome = [op |-> "new", m |-> store]

ExecuteBytes(op) ==
  /\ store' = store
  /\ outcome' = [op |-> op, m |-> executeBytes(store, Op0(op))]

NextBytes == \E op \in ByteOps : ExecuteBytes(op)

SpecBytes == InitBytes /\ [][NextBytes]_vars

\* the stack of store ends with n integers
TopUints(n) ==
  /\ Len(store.stack) >= n
  /\ \A k \in 0..(n - 1) : Peek(store, k).t = "uint64"

\* C31: getbit and setbit index bits so that, for a u64 x and every index i
\* with 0 <= i <= 63, bit i is the bit of weight 2^i of the 64-bit
\* representation: getbit(x, i) = (x div 2^i) mod 2 and
\* getbit(setbit(x, i, v), i) = v; for a byte string bit 0 is the
\* most-significant bit of the first byte.
C31_BitIndexing ==
  /\ (outcome.op = "getbit" /\ TopUints(2) /\ Peek(store, 0).v <= UintBits - 1) =>
       /\ outcome.m.err = NoErr
       /\ Peek(outcome.m, 0) = U((Peek(store, 1).v \div 2^Peek(store, 0).v) % 2)
  /\ (outcome.op = "setbit" /\ TopUints(3) /\ Peek(store, 1).v <= UintBits - 1
        /\ Peek(store, 0).v <= 1) =>
       /\ outcome.m.err = NoErr
       /\ GetBit(Push(outcome.m, Peek(store, 1))).err = NoErr
       /\ Peek(GetBit(Push(outcome.m, Peek(store, 1))), 0) = Peek(store, 0)
  /\ (outcome.op = "getbit" /\ TopUints(1) /\ Len(store.stack) >= 2
        /\ Peek(store, 1).t = "bytes" /\ Peek(store, 0).v = 0
        /\ Len(Deref(store, Peek(store, 1))) > 0) =>
       /\ outcome.m.err = NoErr
       /\ Peek(outcome.m, 0) = U(Deref(store, Peek(store, 1))[1] \div 128)

\* the stack of store ends with two byte strings
TwoBytes ==
  /\ Len(store.stack) >= 2
  /\ Peek(store, 0).t = "bytes"
  /\ Peek(store, 1).t = "bytes"

\* C32: concat of byte strings a (pushed first) and b yields a followed by b,
\* so the result has length len(a) + len(b) and its first len(a) bytes equal
\* a, whenever len(a) + len(b) <= 4096; otherwise concat rejects with
\* CONCAT_ERROR, so no byte string longer than 4096 bytes is ever produced.
C32_ConcatJoins ==
  (outcome.op = "concat" /\ TwoBytes) =>
    LET a == Deref(store, Peek(store, 1))
        b == Deref(store, Peek(store, 0))
    IN /\ \A r \in DOMAIN outcome.m.heap : Len(outcome.m.heap[r]) <= 4096
       /\ IF Len(a) + Len(b) <= 4096
            THEN /\ outcome.m.err = NoErr
                 /\ Len(outcome.m.stack) = Len(store.stack) - 1
                 /\ Peek(outcome.m, 0).t = "bytes"
                 /\ LET c == Deref(outcome.m, Peek(outcome.m, 0))
                    IN /\ Len(c) = Len(a) + Len(b)
                       /\ SubSeq(c, 1, Len(a)) = a
                       /\ SubSeq(c, Len(a) + 1, Len(c)) = b
          ELSE outcome.m.err = "CONCAT_ERROR"

\* concat of two different byte strings gave a byte string of 4096 bytes
C32_Witness ==
  /\ outcome.op = "concat"
  /\ TwoBytes
  /\ Deref(store, Peek(store, 1)) # Deref(store, Peek(store, 0))
  /\ outcome.m.err = NoErr
  /\ Len(Deref(outcome.m, Peek(outcome.m, 0))) = 4096

\* the contents of a value held by machine m: the integer, or the bytes of
\* the object referred to
Contents(m, x) == IF x.t = "bytes" THEN Deref(m, x) ELSE << x.v >>

\* C37: setbyte and setbit applied to a byte string change only the value they
\* push: every other stack entry, scratch slot and bytecblock constant that
\* held the same byte string before the opcode (a copy made by dup, or the
\* constant a bytec was loaded from) keeps its previous contents.
C37_OnlyPushedValueChanges ==
  (/\ outcome.op \in {"setbyte", "setbit"}
   /\ outcome.m.err = NoErr
   /\ Len(store.stack) >= 3
   /\ Peek(store, 2).t = "bytes") =>
    /\ \A k \in 1..(Len(store.stack) - 3) :
         /\ outcome.m.stack[k] = store.stack[k]
         /\ Contents(outcome.m, outcome.m.stack[k]) = Contents(store, store.stack[k])
    /\ \A i \in DOMAIN store.scratch :
         /\ outcome.m.scratch[i] = store.scratch[i]
         /\ Contents(outcome.m, outcome.m.scratch[i]) = Contents(store, store.scratch[i])
    /\ \A i \in DOMAIN store.bytecblock :
         /\ outcome.m.bytecblock[i] = store.bytecblock[i]
         /\ Contents(outcome.m, outcome.m.bytecblock[i]) = Contents(store, store.bytecblock[i])

\* ---------------------------------------------------- branches and the loop
\* The machine of a running program: the instructions, instructionIndex (from
\* 0) and the stack.  Execution has ended once an instruction failed, return
\* moved instructionIndex to the end, or instructionIndex passed the last
\* instruction.
OpLabel(op, label) == [op |-> op, arg |-> B(label)]

\* the positions (from 0) of the labels named label at or after position from
LabelsFrom(instructions, label, from) ==
  {j \in from..(Len(instructions) - 1) : instructions[j + 1] = OpLabel("label", label)}

Lowest(S) == CHOOSE j \in S : \A k \in S : j <= k

\* a jump that scans only the instructions after the branch
jumpForward_AfterOnly(m, label) ==
  IF LabelsFrom(m.instructions, label, m.instructionIndex) = {}
    THEN Raise(m, "LABEL_NOT_FOUND")
  ELSE [m EXCEPT !.instructionIndex =
          Lowest(LabelsFrom(m.instructions, label, m.instructionIndex))]

\* Interpreter.jumpForward: the opcode list is scanned from its start for the
\* label, which may lie after or before the branch; instructionIndex moves to
\* the first match, and no match is a fatal error
jumpForward(m, label) ==
  IF LabelsFrom(m.instructions, label, 0) = {} THEN Raise(m, "LABEL_NOT_FOUND")
  ELSE [m EXCEPT !.instructionIndex = Lowest(LabelsFrom(m.instructions, label, 0))]

\* Branch
Branch(m, label) == jumpForward(m, label)

\* BranchIfZero: pops an integer, jumps when it is zero
BranchIfZero(m, label) ==
  IF Len(m.stack) < 1 THEN Raise(m, "ASSERT_STACK_LENGTH")
  ELSE IF Peek(m, 0).t # "uint64" THEN Raise(m, "INVALID_TYPE")
  ELSE IF Peek(m, 0).v = 0 THEN jumpForward(Drop(m, 1), label)
  ELSE Drop(m, 1)

\* BranchIfNotZero: pops an integer, jumps when it is not zero
BranchIfNotZero(m, label) ==
  IF Len(m.stack) < 1 THEN Raise(m, "ASSERT_STACK_LENGTH")
  ELSE IF Peek(m, 0).t # "uint64" THEN Raise(m, "INVALID_TYPE")
  ELSE IF Peek(m, 0).v # 0 THEN jumpForward(Drop(m, 1), label)
  ELSE Drop(m, 1)

\* the instruction pointer after Return ended the execution
endAfterReturn(m) ==
  IF m.halted THEN [m EXCEPT !.instructionIndex = Len(m.instructions)] ELSE m

\* the execute method of one instruction of a running program
executeRun(m, ins) ==
  CASE ins.op = "label" -> m
    [] ins.op = "b"     -> Branch(m, ins.arg.b)
    [] ins.op = "bz"    -> BranchIfZero(m, ins.arg.b)
    [] ins.op = "bnz"   -> BranchIfNotZero(m, ins.arg.b)
    [] ins.op = "int"   -> Push(m, ins.arg)
    [] ins.op = "pop"   -> Pop(m)
    [] ins.op = "err"   -> Raise(m, "TEAL_ENCOUNTERED_ERR")
    [] ins.op = "return" -> endAfterReturn(Return(m))

\* the execution of the program has ended
Terminated(m) ==
  m.err # NoErr \/ m.instructionIndex >= Len(m.instructions)

\* the cost budget of an execution, every instruction executed costing 1
MaxCost == 6

\* one turn of the loop without a cost budget
stepRun_NoBudget(m) ==
  executeRun([m EXCEPT !.instructionIndex = @ + 1, !.cost = @ + 1],
             m.instructions[m.instructionIndex + 1])

\* one turn of the loop of Interpreter.execute: fetch the instruction at
\* instructionIndex, increment instructionIndex, execute the instruction; an
\* instruction that would take the cost of the execution over the budget is
\* a fatal error instead
stepRun(m) ==
  IF m.cost >= MaxCost THEN Raise(m, "MAX_COST_EXCEEDED")
  ELSE executeRun([m EXCEPT !.instructionIndex = @ + 1, !.cost = @ + 1],
                  m.instructions[m.instructionIndex + 1])

\* ------------------------------------------------------------ loop inputs
MaxProgLen == 4

RunIns ==
  {OpInt(0), OpInt(1), Ins("return"), Ins("err"),
   OpLabel("label", "l"), OpLabel("b", "l"), OpLabel("bz", "l"), OpLabel("bnz", "l")}

RECURSIVE ProgramsOfLen(_)
ProgramsOfLen(n) ==
  IF n = 0 THEN {<< >>}
  ELSE {Append(p, i) : p \in ProgramsOfLen(n - 1), i \in RunIns}

RunPrograms == UNION {ProgramsOfLen(n) : n \in 0..MaxProgLen}

NewRun(program) ==
  [err |-> NoErr, stack |-> << >>, state |-> EmptyState, halted |-> FALSE,
   instructions |-> program, instructionIndex |-> 0, cost |-> 0]

\* store is the machine; outcome the instruction executed last, the position
\* it was fetched from, the stack it found and the number of turns so far
InitRun ==
  /\ store \in {NewRun(p) : p \in RunPrograms}
  /\ outcome = [ins |-> Ins("none"), at |-> 0, stack |-> << >>, steps |-> 0]

StepRun ==
  /\ ~Terminated(store)
  /\ store' = stepRun(store)
  /\ outcome' = [ins |-> store.instructions[store.instructionIndex + 1],
                 at |-> store.instructionIndex,
                 stack |-> store.stack,
                 steps |-> outcome.steps + 1]

NextRun == StepRun

SpecRun == InitRun /\ [][NextRun]_vars

\* the loop keeps turning while the execution has not ended
SpecRunFair == SpecRun /\ WF_vars(NextRun)

\* the instruction executed last was a branch whose condition held
BranchTaken ==
  /\ store.err # "MAX_COST_EXCEEDED"
  /\ \/ outcome.ins.op = "b"
     \/ outcome.ins.op = "bz" /\ Len(outcome.stack) >= 1
          /\ outcome.stack[Len(outcome.stack)] = U(0)
     \/ outcome.ins.op = "bnz" /\ Len(outcome.stack) >= 1
          /\ outcome.stack[Len(outcome.stack)].t = "uint64"
          /\ outcome.stack[Len(outcome.stack)] # U(0)

\* C33: b, bz (popped value zero) and bnz (popped value non-zero) transfer
\* control to the matching label whether it is located after the branch
\* instruction or before it; a branch to a label that does not occur in the
\* program is a fatal error at jump time.
C33_BranchesBothWays ==
  BranchTaken =>
    IF LabelsFrom(store.instructions, outcome.ins.arg.b, 0) = {}
      THEN store.err = "LABEL_NOT_FOUND"
    ELSE /\ store.err = NoErr
         /\ store.instructionIndex \in LabelsFrom(store.instructions, outcome.ins.arg.b, 0)

\* a branch has moved control back to a label located before it
C33_Witness ==
  /\ BranchTaken
  /\ store.err = NoErr
  /\ store.instructionIndex < outcome.at
  /\ store.instructions[store.instructionIndex + 1] = OpLabel("label", outcome.ins.arg.b)

\* C38: every program execution terminates, by running past the last
\* instruction, by return, or by a fatal error, after a bounded number of
\* opcode steps (at most the cost budget and the turn that exceeds it), for
\* every program, programs that contain branches to earlier labels included.
C38_Terminates ==
  /\ [](outcome.steps <= MaxCost + 1)
  /\ <>Terminated(store)

\* an execution that kept branching back to an earlier label was ended by
\* the cost budget
C38_Witness ==
  /\ Terminated(store)
  /\ store.err = "MAX_COST_EXCEEDED"
  /\ outcome.ins.op \in {"label", "b", "bz", "bnz"}
  /\ LabelsFrom(store.instructions, "l", 0) # {}
  /\ \E j \in 1..Len(store.instructions) :
       /\ store.instructions[j].op \in {"b", "bz", "bnz"}
       /\ Lowest(LabelsFrom(store.instructions, "l", 0)) < j - 1

\* ------------------------------------------------- conservation of units
RECURSIVE SumOver(_, _)
SumOver(f, S) ==
  IF S = {} THEN 0
  ELSE LET x == CHOOSE y \in S : TRUE IN f[x] + SumOver(f, S \ {x})

\* units of an asset held by all the accounts of a state together
HeldUnits(st, assetId) ==
  SumOver([a \in DOMAIN st.accounts |->
             IF assetId \in DOMAIN st.accounts[a].assets
               THEN HoldingOf(st, assetId, a).amount ELSE 0],
          DOMAIN st.accounts)

\* every asset defined in a state has its whole supply in the holdings, and
\* no holding is negative
UnitsConserved(st) ==
  \A assetId \in DOMAIN st.assetDefs :
    getAssetDef(st, assetId) = NoErr =>
      /\ HeldUnits(st, assetId) = AssetDefOf(st, assetId).total
      /\ \A a \in DOMAIN st.accounts :
           assetId \in DOMAIN st.accounts[a].assets =>
             HoldingOf(st, assetId, a).amount >= 0

\* C35: in every reachable state, and in the state every accepted group with a
\* TransferAsset or RevokeAsset transaction leaves, the holdings of each
\* existing asset add up to its total supply and none is negative, also when
\* the receiver or the close-to account is the sender itself.
C35_AssetUnitsConserved ==
  /\ UnitsConserved(store)
  /\ \A g \in TransferAssetGroups \cup RevokeGroups :
       executeTx(store, g).ok => UnitsConserved(executeTx(store, g).store)

\* micro-units held by all the accounts of a state together
AlgoUnits(st) ==
  SumOver([a \in DOMAIN st.accounts |-> st.accounts[a].amount], DOMAIN st.accounts)

\* fees of the transactions of a group together
FeesOf(g) == SumOver([i \in 1..Len(g) |-> g[i].fee], 1..Len(g))

\* the groups holding a TransferAlgo transaction
AlgoGroups == {g \in Groups : \E i \in 1..Len(g) : g[i].type = "TransferAlgo"}

\* C36: every accepted group with a TransferAlgo transaction leaves the sum of
\* all balances at the sum before the group less the fees of its transactions,
\* and leaves no balance negative, also when the receiver or the close-to
\* account is the sender itself.
C36_AlgoUnitsConserved ==
  \A g \in AlgoGroups :
    executeTx(store, g).ok =>
      /\ AlgoUnits(executeTx(store, g).store) = AlgoUnits(store) - FeesOf(g)
      /\ \A a \in DOMAIN executeTx(store, g).store.accounts :
           executeTx(store, g).store.accounts[a].amount >= 0



====
